---- MODULE Spec2Model ----
(***************************************************************************)
(* Model of the template normalization and provisioning engine of          *)
(* mcp_server.py: provision_cfn_stack and the helpers it calls.            *)
(*                                                                         *)
(* A template text is modelled by what the code can observe of it: its     *)
(* surface format, whether json.loads / yaml.safe_load accept it, and the  *)
(* document tree it denotes.  Python dicts are ordered sequences of        *)
(* key/value entries, so that iteration order, pop and re-insertion are    *)
(* those of the interpreter.                                               *)
(***************************************************************************)
EXTENDS Integers, Sequences, FiniteSets, TLC

VARIABLES
    nIn, nOut1, nOut2, nPc,         \* normalization harness: input, outputs, position
    readonly,                       \* READONLY_MODE
    roleArn,                        \* a cross-account role is configured
    targetVpc,                      \* CFN_TARGET_DEFAULT_VPC_ID is set
    credsCache, credsExpiry,        \* _assumed_creds_cache, _assumed_creds_expiry
    now, ticks,                     \* time.time() in whole seconds; clock steps taken
    pc,                             \* position of the current provision_cfn_stack call
    tplIn, callerParams,            \* the call's arguments
    nameIn,                         \* the stack name the caller passed
    stackName,                      \* the effective stack name
    describedName,                  \* the StackName sent to describe_stacks
    body,                           \* template_body
    stackExists,
    stackPresent,                   \* the stack is in the account when describe_stacks is called
    userParams, tplKeys,            \* user_params, template_param_keys
    vpcId, subnetIds,               \* default_vpc_id, default_subnet_ids
    suffixAt,                       \* the clock sample unique_suffix is made of
    calls,                          \* external API calls of this call, in order
    request,                        \* the create_stack / update_stack request issued
    result,                         \* the returned record
    prevCreate,                     \* the previous creation request's suffix sample
    conc,                           \* concurrent credential lookups: each thread's position and locals
    tl,                             \* the line pass on its own: input lines, output lines, position
    prep,                           \* template preparation on its own: input, current text, position
    rt,                             \* converse_with_retry: position, attempts made, outcome
    ws                              \* the WebSocket handler: position, messages sent, return value

otherVars == <<conc, tl, prep, rt, ws>>
normVars == <<nIn, nOut1, nOut2, nPc>>
confVars == <<readonly, roleArn, targetVpc>>
credVars == <<credsCache, credsExpiry>>
callVars == <<pc, tplIn, callerParams, nameIn, stackName, describedName, body, stackExists, stackPresent, userParams, tplKeys,
              vpcId, subnetIds, suffixAt, calls, request, result>>
vars == <<otherVars, normVars, confVars, credVars, now, ticks, callVars, prevCreate>>

----------------------------------------------------------------------------
(* Python values.  A record's field name is its type tag.                  *)
Str(x)   == [s |-> x]               \* str
Dict(es) == [d |-> es]              \* dict: sequence of entries, insertion order
List(xs) == [l |-> xs]              \* list
Body(tx) == [t |-> tx]              \* str holding the text of a (nested) template
None     == [none |-> TRUE]
E(key, val) == [k |-> key, v |-> val]

IsStr(v)  == "s" \in DOMAIN v
IsDict(v) == "d" \in DOMAIN v
IsList(v) == "l" \in DOMAIN v
IsBody(v) == "t" \in DOMAIN v
IsNone(v) == "none" \in DOMAIN v

Range(sq) == {sq[i] : i \in DOMAIN sq}

(* dict operations on an entry sequence *)
HasKey(es, key) == \E i \in DOMAIN es : es[i].k = key
KeyIndex(es, key) == CHOOSE i \in DOMAIN es : es[i].k = key
Get(es, key) == IF HasKey(es, key) THEN es[KeyIndex(es, key)].v ELSE None
Del(es, key) == SelectSeq(es, LAMBDA e : e.k # key)
Put(es, key, val) ==
    IF HasKey(es, key)
    THEN [i \in DOMAIN es |-> IF es[i].k = key THEN E(key, val) ELSE es[i]]
    ELSE Append(es, E(key, val))
Keys(es) == {es[i].k : i \in DOMAIN es}

(* d.get(key) or {} : the dict stored under key when it is a non-empty dict,
   otherwise a fresh empty dict that is not part of d *)
GetOrEmpty(es, key) ==
    LET v == Get(es, key) IN IF IsDict(v) THEN v.d ELSE <<>>
IsAttached(es, key) ==
    LET v == Get(es, key) IN IsDict(v) /\ v.d # <<>>

----------------------------------------------------------------------------
(* Template text.  fmt: the surface format ("json" starts with a brace).   *)
(* parses: json.loads / yaml.safe_load accept it (a YAML text with         *)
(* intrinsic tags such as !Ref, for which no constructor is registered,    *)
(* and a malformed text do not).  flow: its cooldown keys are written so   *)
(* that no line starts with them (flow mapping, quoted key).  canon: the   *)
(* text is the output of json.dumps / yaml.dump.  doc: the entries of the  *)
(* top-level mapping.                                                      *)
Text(f, p, fl, es) == [fmt |-> f, parses |-> p, flow |-> fl, canon |-> FALSE, doc |-> es]

(* json.dumps(doc, indent=2) / yaml.dump(doc, default_flow_style=False) *)
Dump(f, es) == [fmt |-> f, parses |-> TRUE, flow |-> FALSE, canon |-> TRUE, doc |-> es]

RECURSIVE StringsOfVal(_)
StringsOfVal(v) ==
    IF IsStr(v) THEN {v.s}
    ELSE IF IsDict(v)
         THEN UNION {{v.d[i].k} \cup StringsOfVal(v.d[i].v) : i \in DOMAIN v.d}
    ELSE IF IsList(v) THEN UNION {StringsOfVal(v.l[i]) : i \in DOMAIN v.l}
    ELSE IF IsBody(v) THEN StringsOfVal(Dict(v.t.doc))
    ELSE {}

(* The substrings the code searches for, per string of the vocabulary.
   "lc:x" stands for: x occurs in the lower-cased string. *)
SafeId(id) ==
    CASE id = "Media_Bucket" -> "media-bucket"
      [] id = "Bucket" -> "bucket"
      [] id = "Bucket2" -> "bucket2"
      [] OTHER -> "res"
ForcedBucketName(id) == "app-${AWS::AccountId}-${BucketNameSuffix}-" \o SafeId(id)
ForcedBucketNames == {ForcedBucketName(id) : id \in {"Media_Bucket", "Bucket", "Bucket2", "Other"}}

Tokens(str) ==
    CASE str \in {"AWS::S3::Bucket", "AWS::S3::BucketPolicy"} -> {"S3::Bucket"}
      [] str = "BucketName" -> {"BucketName"}
      [] str = "BucketNameSuffix" -> {"BucketName", "BucketNameSuffix", "lc:bucketnamesuffix"}
      [] str = "bucketnamesuffix" -> {"lc:bucketnamesuffix"}
      [] str = "app-${AWS::AccountId}-media" -> {"${AWS::AccountId}-media"}
      [] str \in ForcedBucketNames \cup {"app-${AWS::AccountId}-${BucketNameSuffix}-media"} ->
            {"BucketName", "BucketNameSuffix", "${BucketNameSuffix}", "lc:bucketnamesuffix"}
      [] str = "Parameters" -> {"Parameters"}
      [] str = "VpcId" -> {"VpcId"}
      [] str = "PublicSubnetIds" -> {"PublicSubnetIds", "SubnetId"}
      [] str = "PrivateSubnetIds" -> {"PrivateSubnetIds", "SubnetId"}
      [] str = "SubnetId" -> {"SubnetId"}
      [] str \in {"DBInstanceIdentifierSuffix", "appDB-${DBInstanceIdentifierSuffix}"} ->
            {"DBInstanceIdentifierSuffix", "lc:dbinstanceidentifiersuffix"}
      [] str = "dbinstanceidentifiersuffix" -> {"lc:dbinstanceidentifiersuffix"}
      [] OTHER -> {}

(* token in template_body *)
TextHas(tx, token) == \E str \in StringsOfVal(Dict(tx.doc)) : token \in Tokens(str)

----------------------------------------------------------------------------
(* _s3_bucket_name_uses_suffix *)
S3BucketNameUsesSuffix(v) ==
    IF IsNone(v) THEN FALSE
    ELSE \E str \in StringsOfVal(v) : "lc:bucketnamesuffix" \in Tokens(str)

BucketSuffixParam == Dict(<<E("Type", Str("String")), E("Default", Str(""))>>)

(* doc.setdefault('Parameters', {}) *)
SetDefaultParameters(doc) ==
    IF HasKey(doc, "Parameters") THEN doc ELSE Append(doc, E("Parameters", Dict(<<>>)))

(* str.replace('${AWS::AccountId}-media', '${AWS::AccountId}-${BucketNameSuffix}-media')
   over the whole text, nested template strings included *)
RECURSIVE ReplaceAccountIdSuffix(_)
ReplaceAccountIdSuffix(v) ==
    IF IsStr(v)
    THEN IF v.s = "app-${AWS::AccountId}-media"
         THEN Str("app-${AWS::AccountId}-${BucketNameSuffix}-media") ELSE v
    ELSE IF IsDict(v)
         THEN Dict([i \in DOMAIN v.d |-> E(v.d[i].k, ReplaceAccountIdSuffix(v.d[i].v))])
    ELSE IF IsList(v) THEN List([i \in DOMAIN v.l |-> ReplaceAccountIdSuffix(v.l[i])])
    ELSE IF IsBody(v)
         THEN Body([v.t EXCEPT !.doc = ReplaceAccountIdSuffix(Dict(v.t.doc)).d])
    ELSE v

(* lines 178-194: the string-level bucket-name fix that precedes both paths *)
StringLevelBucketFix(tx) ==
    IF TextHas(tx, "S3::Bucket") /\ ~TextHas(tx, "BucketNameSuffix")
       /\ ~TextHas(tx, "${BucketNameSuffix}") /\ TextHas(tx, "${AWS::AccountId}-media")
    THEN LET replaced == [tx EXCEPT !.doc = ReplaceAccountIdSuffix(Dict(tx.doc)).d]
             doc == SetDefaultParameters(replaced.doc)
             params == GetOrEmpty(doc, "Parameters")
         IN  IF replaced.parses /\ ~HasKey(params, "BucketNameSuffix")
             THEN Dump(tx.fmt, Put(doc, "Parameters",
                                   Dict(Put(params, "BucketNameSuffix", BucketSuffixParam))))
             ELSE replaced
    ELSE tx

(* key.strip().lower().replace('_', '') == 'estimatedwarmupseconds' *)
IsWarmupAlias(key) == key \in {"EstimatedWarmupSeconds", "estimated_warmup_seconds"}

(* for key in list(props): if alias: props[new] = props.pop(key); break *)
RenameWarmup(props) ==
    LET hits == {i \in DOMAIN props : IsWarmupAlias(props[i].k)}
    IN  IF hits = {} THEN props
        ELSE LET i == CHOOSE j \in hits : \A h \in hits : j <= h
             IN  Put(Del(props, props[i].k), "EstimatedInstanceWarmupSeconds", props[i].v)

(* A rule's outcome: the resource's properties, the document's Parameters,
   and whether the rule set the changed flag. *)
Out(props, params, changed) == [props |-> props, params |-> params, changed |-> changed]

(* lines 206-218 *)
RuleScalingPolicyJson(props, params) ==
    LET p1 == RenameWarmup(props)
        tt == Get(p1, "TargetTrackingConfiguration")
        tt2 == IF IsDict(tt) THEN Del(Del(tt.d, "ScaleInCooldown"), "ScaleOutCooldown") ELSE <<>>
        p2 == IF IsDict(tt) THEN Put(p1, "TargetTrackingConfiguration", Dict(tt2)) ELSE p1
    IN  Out(p2, params, p1 # props \/ (IsDict(tt) /\ tt2 # tt.d))

(* lines 352-357: the YAML path renames the key only *)
RuleScalingPolicyYaml(props, params) ==
    LET p1 == RenameWarmup(props) IN Out(p1, params, p1 # props)

(* lines 219-223 *)
RuleApiGatewayStage(props, params) ==
    LET p1 == Del(Del(props, "LoggingLevel"), "DataTraceEnabled")
    IN  Out(p1, params, p1 # props)

(* lines 250-261 *)
RuleEc2Instance(props, params) ==
    LET specs == Get(props, "TagSpecifications")
        withTags == IF IsList(specs)
                    THEN {i \in DOMAIN specs.l : IsDict(specs.l[i]) /\ HasKey(specs.l[i].d, "Tags")}
                    ELSE {}
        p1 == IF withTags # {} /\ ~HasKey(props, "Tags")
              THEN LET i == CHOOSE j \in withTags : \A h \in withTags : j <= h
                   IN  Put(props, "Tags", Get(specs.l[i].d, "Tags"))
              ELSE props
    IN  Out(Del(p1, "TagSpecifications"), params, HasKey(props, "TagSpecifications"))

(* lines 262-276: the path part with the characters API Gateway rejects replaced *)
FixPathPart(part) ==
    CASE part = "{user-id}" -> "{user_id}"
      [] part = "my path" -> "my_path"
      [] OTHER -> part
RuleApiGatewayResource(props, params) ==
    LET pp == Get(props, "PathPart")
    IN  IF IsStr(pp) /\ FixPathPart(pp.s) # pp.s
        THEN Out(Put(props, "PathPart", Str(FixPathPart(pp.s))), params, TRUE)
        ELSE Out(props, params, FALSE)

(* lines 277-281 and 347-351 *)
RuleLogGroup(props, params) ==
    LET name == Get(props, "LogGroupName")
    IN  IF IsStr(name) /\ name.s # ""
        THEN Out(Put(props, "LogGroupName", Dict(<<E("Fn::Sub", Str("/app/${AWS::StackName}"))>>)),
                 params, TRUE)
        ELSE Out(props, params, FALSE)

(* lines 282-290 and 358-365 *)
RuleS3Bucket(id, props, params) ==
    LET name == Get(props, "BucketName")
    IN  IF IsNone(name) \/ ~S3BucketNameUsesSuffix(name)
        THEN Out(Put(props, "BucketName", Dict(<<E("Fn::Sub", Str(ForcedBucketName(id)))>>)),
                 IF HasKey(params, "BucketNameSuffix") THEN params
                 ELSE Put(params, "BucketNameSuffix", BucketSuffixParam),
                 TRUE)
        ELSE Out(props, params, FALSE)

(* json.loads(policy_text): the one policy string of the vocabulary that is JSON *)
PolicyJson == Dict(<<E("Version", Str("2012-10-17"))>>)
JsonLoadsPolicy(v) == IF IsStr(v) /\ v.s = "{policy}" THEN PolicyJson ELSE v

(* lines 291-302 and 366-376 *)
RuleBucketPolicy(props, params) ==
    LET text == Get(props, "PolicyText")
        p1 == Del(props, "PolicyText")
    IN  IF ~IsNone(text) /\ ~HasKey(p1, "PolicyDocument")
        THEN Out(Put(p1, "PolicyDocument", JsonLoadsPolicy(text)), params, TRUE)
        ELSE Out(p1, params, FALSE)

(* OriginId -> TargetOriginId inside one cache behavior (lines 236-249) *)
FixOriginId(beh) ==
    IF HasKey(beh, "OriginId") /\ ~HasKey(beh, "TargetOriginId")
    THEN Put(Del(beh, "OriginId"), "TargetOriginId", Get(beh, "OriginId"))
    ELSE Del(beh, "OriginId")

(* lines 236-241: the default cache behavior of a distribution config *)
FixDefaultBehavior(cfg) ==
    IF IsDict(Get(cfg, "DefaultCacheBehavior"))
    THEN Put(cfg, "DefaultCacheBehavior", Dict(FixOriginId(Get(cfg, "DefaultCacheBehavior").d)))
    ELSE cfg

(* lines 242-249: each of its CacheBehaviors *)
FixCacheBehavior(beh) == IF IsDict(beh) THEN Dict(FixOriginId(beh.d)) ELSE beh
FixCacheBehaviors(cfg) ==
    IF IsList(Get(cfg, "CacheBehaviors"))
    THEN Put(cfg, "CacheBehaviors",
             List([i \in DOMAIN Get(cfg, "CacheBehaviors").l |->
                      FixCacheBehavior(Get(cfg, "CacheBehaviors").l[i])]))
    ELSE cfg

(* lines 226-249: the distribution config without Tags and
   ViewerProtocolPolicy, its behaviors fixed *)
FixDistributionConfig(cfg) ==
    FixCacheBehaviors(FixDefaultBehavior(Del(Del(cfg, "Tags"), "ViewerProtocolPolicy")))

(* lines 226-231: Tags move from the config up to the resource *)
HoistTags(props, cfg, fixed) ==
    IF HasKey(cfg, "Tags") /\ ~IsNone(Get(cfg, "Tags")) /\ ~HasKey(props, "Tags")
    THEN Put(Put(props, "DistributionConfig", Dict(fixed)), "Tags", Get(cfg, "Tags"))
    ELSE Put(props, "DistributionConfig", Dict(fixed))

CloudFrontOut(props, params, cfg, fixed) == Out(HoistTags(props, cfg, fixed), params, fixed # cfg)

(* lines 224-249 *)
RuleCloudFrontDistribution(props, params) ==
    IF ~IsDict(Get(props, "DistributionConfig")) THEN Out(props, params, FALSE)
    ELSE CloudFrontOut(props, params, Get(props, "DistributionConfig").d,
                       FixDistributionConfig(Get(props, "DistributionConfig").d))

RECURSIVE NormalizeCfnTemplateForProvision(_)

(* lines 303-310 and 377-383: a nested stack's inline template is normalized
   by self-application and written back when the text changed *)
RuleNestedStack(props, params) ==
    LET tb == Get(props, "TemplateBody")
    IN  IF IsBody(tb)
        THEN LET normalized == NormalizeCfnTemplateForProvision(tb.t)
             IN  IF normalized # tb.t
                 THEN Out(Put(props, "TemplateBody", Body(normalized)), params, TRUE)
                 ELSE Out(props, params, FALSE)
        ELSE Out(props, params, FALSE)

(* the rule table of the JSON path (lines 204-310) *)
ApplyJsonRule(id, rtype, props, params) ==
    CASE rtype = Str("AWS::AutoScaling::ScalingPolicy") -> RuleScalingPolicyJson(props, params)
      [] rtype = Str("AWS::ApiGateway::Stage") -> RuleApiGatewayStage(props, params)
      [] rtype = Str("AWS::CloudFront::Distribution") -> RuleCloudFrontDistribution(props, params)
      [] rtype = Str("AWS::EC2::Instance") -> RuleEc2Instance(props, params)
      [] rtype = Str("AWS::ApiGateway::Resource") -> RuleApiGatewayResource(props, params)
      [] rtype = Str("AWS::Logs::LogGroup") -> RuleLogGroup(props, params)
      [] rtype = Str("AWS::S3::Bucket") -> RuleS3Bucket(id, props, params)
      [] rtype = Str("AWS::S3::BucketPolicy") -> RuleBucketPolicy(props, params)
      [] rtype = Str("AWS::CloudFormation::Stack") -> RuleNestedStack(props, params)
      [] OTHER -> Out(props, params, FALSE)

(* the rule table of the YAML path (lines 345-383) *)
ApplyYamlRule(id, rtype, props, params) ==
    CASE rtype = Str("AWS::Logs::LogGroup") -> RuleLogGroup(props, params)
      [] rtype = Str("AWS::AutoScaling::ScalingPolicy") -> RuleScalingPolicyYaml(props, params)
      [] rtype = Str("AWS::S3::Bucket") -> RuleS3Bucket(id, props, params)
      [] rtype = Str("AWS::S3::BucketPolicy") -> RuleBucketPolicy(props, params)
      [] rtype = Str("AWS::CloudFormation::Stack") -> RuleNestedStack(props, params)
      [] OTHER -> Out(props, params, FALSE)

(* for logical_id, rdef in resources.items(): ... from resource i on.
   props = rdef.get('Properties') or {} is the resource's own dict only when that
   is non-empty; what a rule writes into the fresh dict is lost. *)
RECURSIVE NormalizeResources(_, _, _, _, _)
NormalizeResources(fmt, resources, i, params, changed) ==
    IF i > Len(resources)
    THEN [resources |-> resources, params |-> params, changed |-> changed]
    ELSE LET rdef == resources[i].v
         IN  IF ~IsDict(rdef)
             THEN NormalizeResources(fmt, resources, i + 1, params, changed)
             ELSE
             LET props == GetOrEmpty(rdef.d, "Properties")
                 r == IF fmt = "json"
                      THEN ApplyJsonRule(resources[i].k, Get(rdef.d, "Type"), props, params)
                      ELSE ApplyYamlRule(resources[i].k, Get(rdef.d, "Type"), props, params)
                 rdef2 == IF IsAttached(rdef.d, "Properties")
                          THEN Dict(Put(rdef.d, "Properties", Dict(r.props)))
                          ELSE rdef
             IN  NormalizeResources(fmt, [resources EXCEPT ![i] = E(resources[i].k, rdef2)],
                                    i + 1, r.params, changed \/ r.changed)

(* the structural pass over a parsed document: the document after the rules,
   and whether any rule reported a change *)
StructuralPass(fmt, doc0) ==
    LET doc == SetDefaultParameters(doc0)
        n == NormalizeResources(fmt, GetOrEmpty(doc, "Resources"), 1,
                                GetOrEmpty(doc, "Parameters"), FALSE)
        d1 == IF IsAttached(doc, "Resources") THEN Put(doc, "Resources", Dict(n.resources))
              ELSE doc
    IN  [doc |-> Put(d1, "Parameters", Dict(n.params)), changed |-> n.changed]

(* lines 314-334, on a text whose cooldown values are scalars: every line that
   starts with a cooldown key goes; a mapping left without lines reads back as
   null.  The strings of nested templates are not searched. *)
RECURSIVE RemoveCooldownLines(_)
RemoveCooldownLines(v) ==
    IF IsDict(v)
    THEN LET kept == SelectSeq(v.d, LAMBDA e : e.k \notin {"ScaleInCooldown", "ScaleOutCooldown"})
         IN  IF kept = <<>> /\ v.d # <<>> THEN None
             ELSE Dict([i \in DOMAIN kept |-> E(kept[i].k, RemoveCooldownLines(kept[i].v))])
    ELSE IF IsList(v) THEN List([i \in DOMAIN v.l |-> RemoveCooldownLines(v.l[i])])
    ELSE v

TextualPass(tx) ==
    LET out == RemoveCooldownLines(Dict(tx.doc))
    IN  IF tx.flow \/ IsNone(out) THEN tx ELSE [tx EXCEPT !.doc = out.d]

(* lines 311-313 and 384-388: the document is written back only when a rule
   reported a change *)
DumpIfChanged(fmt, sp, tx) == IF sp.changed THEN Dump(fmt, sp.doc) ELSE tx

(* lines 195-313 *)
NormalizeJson(tx) ==
    IF ~tx.parses THEN tx ELSE DumpIfChanged("json", StructuralPass("json", tx.doc), tx)

(* lines 335-390, on the text the line pass left *)
NormalizeYaml(res) ==
    IF ~res.parses THEN res ELSE DumpIfChanged("yaml", StructuralPass("yaml", res.doc), res)

NormalizeFixed(tx) == IF tx.fmt = "json" THEN NormalizeJson(tx) ELSE NormalizeYaml(TextualPass(tx))

(* _normalize_cfn_template_for_provision *)
NormalizeCfnTemplateForProvision(tx0) == NormalizeFixed(StringLevelBucketFix(tx0))

(* Structural equality after re-parse: two texts that parse are equal when
   their documents are equal as Python values (dict equality ignores the order
   of keys); a text that does not parse is only equal to itself. *)
RECURSIVE Canon(_)
Canon(v) ==
    IF IsDict(v) THEN [dict |-> {[k |-> v.d[i].k, v |-> Canon(v.d[i].v)] : i \in DOMAIN v.d}]
    ELSE IF IsList(v) THEN [list |-> [i \in DOMAIN v.l |-> Canon(v.l[i])]]
    ELSE IF IsBody(v)
         THEN IF v.t.parses THEN [text |-> Canon(Dict(v.t.doc))] ELSE [raw |-> v.t]
    ELSE v
StructurallyEqual(a, b) == Canon(Body(a)) = Canon(Body(b))

----------------------------------------------------------------------------
(* (rdef.get('Type') or '').startswith('AWS::CloudFront::') *)
IsCloudFrontType(v) ==
    IsStr(v) /\ v.s \in {"AWS::CloudFront::Distribution", "AWS::CloudFront::OriginAccessControl"}

(* 'Res.Attr'.split('.')[0] *)
AttBase(str) ==
    CASE str = "Cdn.DomainName" -> "Cdn"
      [] str = "Queue.Arn" -> "Queue"
      [] OTHER -> str

(* lines 415-429: does this output's Value name a removed resource? *)
OutputReferences(outDef, removed) ==
    IF ~IsDict(outDef) THEN FALSE
    ELSE LET val == Get(outDef.d, "Value")
         IN  IF IsDict(val)
             THEN LET ref == Get(val.d, "Ref")
                      att == Get(val.d, "Fn::GetAtt")
                  IN  \/ IsStr(ref) /\ ref.s \in removed
                      \/ /\ ~(IsStr(ref) /\ ref.s \in removed)
                         /\ HasKey(val.d, "Fn::GetAtt")
                         /\ \/ IsList(att) /\ att.l # <<>> /\ IsStr(att.l[1]) /\ att.l[1].s \in removed
                            \/ IsStr(att) /\ AttBase(att.s) \in removed
             ELSE /\ IsList(val) /\ Len(val.l) = 2
                  /\ val.l[1] = Str("Ref") /\ IsStr(val.l[2]) /\ val.l[2].s \in removed

(* lines 433-446: DependsOn without the removed resources *)
FixDependsOn(rdef, removed) ==
    IF ~IsDict(rdef) THEN rdef
    ELSE LET dep == Get(rdef.d, "DependsOn")
         IN  IF IsList(dep)
             THEN LET newDep == SelectSeq(dep.l, LAMBDA x : ~(IsStr(x) /\ x.s \in removed))
                  IN  IF Len(newDep) = Len(dep.l) THEN rdef
                      ELSE IF newDep = <<>> THEN Dict(Del(rdef.d, "DependsOn"))
                      ELSE Dict(Put(rdef.d, "DependsOn", List(newDep)))
             ELSE IF IsStr(dep) /\ dep.s \in removed THEN Dict(Del(rdef.d, "DependsOn"))
             ELSE rdef

(* _strip_cloudfront_from_template *)
StripCloudfrontFromTemplate(tx) ==
    IF ~tx.parses \/ tx.doc = <<>> THEN tx
    ELSE
    LET resources == GetOrEmpty(tx.doc, "Resources")
        removed == {resources[i].k : i \in {j \in DOMAIN resources :
                        IsDict(resources[j].v) /\ IsCloudFrontType(Get(resources[j].v.d, "Type"))}}
    IN  IF removed = {} THEN tx
        ELSE
        LET kept == SelectSeq(resources, LAMBDA e : e.k \notin removed)
            fixed == [i \in DOMAIN kept |-> E(kept[i].k, FixDependsOn(kept[i].v, removed))]
            outputs == GetOrEmpty(tx.doc, "Outputs")
            outs2 == SelectSeq(outputs, LAMBDA e : ~OutputReferences(e.v, removed))
            d1 == Put(tx.doc, "Resources", Dict(fixed))
            d2 == IF IsAttached(tx.doc, "Outputs") THEN Put(d1, "Outputs", Dict(outs2)) ELSE d1
        IN  Dump(tx.fmt, d2)

(* lines 486-499: every line that is a BucketName key goes, whatever resource
   it belongs to (the values are one-line values) *)
RECURSIVE RemoveBucketNameLines(_)
RemoveBucketNameLines(v) ==
    IF IsDict(v)
    THEN LET kept == SelectSeq(v.d, LAMBDA e : e.k # "BucketName")
         IN  Dict([i \in DOMAIN kept |-> E(kept[i].k, RemoveBucketNameLines(kept[i].v))])
    ELSE IF IsList(v) THEN List([i \in DOMAIN v.l |-> RemoveBucketNameLines(v.l[i])])
    ELSE v

RECURSIVE StripS3BucketNamesForAutoNaming(_)

(* lines 466-480: the loop over the resources, from resource i on *)
RECURSIVE StripBucketNames(_, _)
StripBucketNames(resources, i) ==
    IF i > Len(resources) THEN resources
    ELSE LET rdef == resources[i].v
             props == IF IsDict(rdef) THEN GetOrEmpty(rdef.d, "Properties") ELSE <<>>
             rtype == IF IsDict(rdef) THEN Get(rdef.d, "Type") ELSE None
             tb == Get(props, "TemplateBody")
             p2 == IF rtype = Str("AWS::S3::Bucket") /\ HasKey(props, "BucketName")
                   THEN Del(props, "BucketName")
                   ELSE IF rtype = Str("AWS::CloudFormation::Stack") /\ IsBody(tb)
                        THEN Put(props, "TemplateBody", Body(StripS3BucketNamesForAutoNaming(tb.t)))
                        ELSE props
             r2 == IF p2 # props THEN Dict(Put(rdef.d, "Properties", Dict(p2))) ELSE rdef
         IN  StripBucketNames([resources EXCEPT ![i] = E(resources[i].k, r2)], i + 1)

(* _strip_s3_bucket_names_for_auto_naming *)
StripS3BucketNamesForAutoNaming(tx) ==
    LET resources == GetOrEmpty(tx.doc, "Resources")
        stripped == StripBucketNames(resources, 1)
        res == IF tx.parses /\ stripped # resources
                  THEN Dump(tx.fmt, Put(tx.doc, "Resources", Dict(stripped)))
                  ELSE tx
    IN  IF TextHas(res, "S3::Bucket") /\ TextHas(res, "BucketName")
        THEN [res EXCEPT !.doc = RemoveBucketNameLines(Dict(res.doc)).d]
        ELSE res

(* lines 1353-1357 *)
FORBIDDEN_RESOURCE_TYPES == {
    "AWS::EC2::VPC", "AWS::EC2::Subnet", "AWS::EC2::InternetGateway",
    "AWS::EC2::VPCGatewayAttachment", "AWS::EC2::NATGateway", "AWS::EC2::EIP",
    "AWS::EC2::RouteTable", "AWS::EC2::Route", "AWS::EC2::SubnetRouteTableAssociation"}

(* a template that does not parse turned away at the gate *)
ForbiddenFoundMutRejectUnparsed(tx) ==
    IF IsNone(tx) THEN {} ELSE IF ~tx.parses THEN {"ParseFailure"} ELSE {}

(* lines 1358-1372: the forbidden types found among the top-level resources
   of a template that parses; none when it does not parse, or is no string
   (template_body.strip() raises inside the try) *)
ForbiddenFound(tx) ==
    IF IsNone(tx) THEN {}
    ELSE IF ~tx.parses THEN {}
    ELSE LET resources == GetOrEmpty(tx.doc, "Resources")
         IN  {Get(resources[i].v.d, "Type").s : i \in {j \in DOMAIN resources :
                 /\ IsDict(resources[j].v)
                 /\ IsStr(Get(resources[j].v.d, "Type"))
                 /\ Get(resources[j].v.d, "Type").s \in FORBIDDEN_RESOURCE_TYPES}}

(* lines 1374-1378 *)
PrepareTemplate(tx) ==
    StripS3BucketNamesForAutoNaming(
        StripCloudfrontFromTemplate(NormalizeCfnTemplateForProvision(tx)))

----------------------------------------------------------------------------
(* Parameter handling of provision_cfn_stack. *)

(* str.strip().lower() on the strings of the vocabulary *)
LowerStrip(str) ==
    CASE str \in {"default", "DEFAULT", " Default "} -> "default"
      [] str \in {"", "  "} -> ""
      [] str \in {"VpcId", "vpcid"} -> "vpcid"
      [] str = "PublicSubnetIds" -> "publicsubnetids"
      [] str = "PrivateSubnetIds" -> "privatesubnetids"
      [] str = "SubnetId" -> "subnetid"
      [] str \in {"DBInstanceIdentifierSuffix", "dbinstanceidentifiersuffix"} ->
            "dbinstanceidentifiersuffix"
      [] str \in {"BucketNameSuffix", "bucketnamesuffix"} -> "bucketnamesuffix"
      [] OTHER -> str

(* Parameter values: Str(x), a comma-joined list of subnet ids, or the digits
   of a generated suffix. *)
Joined(ids) == [ids |-> ids]
Digits(n) == [digits |-> n]
(* (v or '').strip().lower() *)
ValueLowerStrip(v) ==
    IF IsNone(v) THEN "" ELSE IF IsStr(v) THEN LowerStrip(v.s) ELSE "value"

(* lines 1404-1408: user_params from the caller's list; an entry without a
   key is skipped, a repeated key keeps its place and takes the later value *)
RECURSIVE UserParamsFrom(_, _, _)
UserParamsFrom(parameters, i, acc) ==
    IF i > Len(parameters) THEN acc
    ELSE UserParamsFrom(parameters, i + 1,
            IF parameters[i].k = "" THEN acc ELSE Put(acc, parameters[i].k, parameters[i].v))

RECURSIVE KeysOfVal(_)
KeysOfVal(v) ==
    IF IsDict(v) THEN UNION {{v.d[i].k} \cup KeysOfVal(v.d[i].v) : i \in DOMAIN v.d}
    ELSE IF IsList(v) THEN UNION {KeysOfVal(v.l[i]) : i \in DOMAIN v.l}
    ELSE {}

VPC_PARAM_KEYS == <<"VpcId", "PublicSubnetIds", "PrivateSubnetIds", "SubnetId">>

(* lines 1409-1421: the declared parameter keys when the template parses;
   otherwise, or when it declares none, the network names that occur as a key
   somewhere in a text that mentions Parameters *)
TemplateParamKeys(tx) ==
    LET declared == IF tx.parses /\ IsDict(Get(tx.doc, "Parameters"))
                    THEN Keys(Get(tx.doc, "Parameters").d) ELSE {}
    IN  IF declared = {} /\ TextHas(tx, "Parameters")
        THEN {VPC_PARAM_KEYS[i] : i \in {j \in 1..4 : VPC_PARAM_KEYS[j] \in KeysOfVal(Dict(tx.doc))}}
        ELSE declared

(* _use_default_vpc_value without the comparison to 'default' *)
UseDefaultVpcValueMutEmptyOnly(uparams, key) == ValueLowerStrip(Get(uparams, key)) = ""

(* lines 1424-1428 *)
IsVpcParamKey(key) ==
    LowerStrip(key) \in {"vpcid", "publicsubnetids", "privatesubnetids", "subnetid"}
UseDefaultVpcValue(uparams, key) ==
    ValueLowerStrip(Get(uparams, key)) \in {"", "default"}

(* lines 1430-1438 *)
NeedVpc(tx, keys, uparams) ==
    \/ \E key \in keys : IsVpcParamKey(key)
    \/ /\ TextHas(tx, "Parameters")
       /\ \E i \in 1..4 : TextHas(tx, VPC_PARAM_KEYS[i])
    \/ \E i \in DOMAIN uparams :
          IsVpcParamKey(uparams[i].k) /\ UseDefaultVpcValue(uparams, uparams[i].k)

(* the value written for a network parameter (lines 1455-1460, 1464-1469) *)
NetworkValue(key, vpc, subnets) ==
    IF LowerStrip(key) = "vpcid" THEN Str(vpc)
    ELSE IF LowerStrip(key) = "subnetid" THEN Str(subnets[1])
    ELSE Joined(subnets)

(* lines 1462-1469: the canonical keys the template declares, from key i on *)
RECURSIVE FillDeclared(_, _, _, _, _)
FillDeclared(uparams, keys, i, vpc, subnets) ==
    IF i > 4 THEN uparams
    ELSE FillDeclared(
            IF VPC_PARAM_KEYS[i] \in keys /\ UseDefaultVpcValue(uparams, VPC_PARAM_KEYS[i])
            THEN Put(uparams, VPC_PARAM_KEYS[i], NetworkValue(VPC_PARAM_KEYS[i], vpc, subnets))
            ELSE uparams,
            keys, i + 1, vpc, subnets)

(* every network key of user_params overwritten with the resolved network *)
FillNetworkMutOverwrite(uparams, keys, vpc, subnets) ==
    IF vpc = "" \/ subnets = <<>> THEN uparams
    ELSE [i \in DOMAIN uparams |->
            IF IsVpcParamKey(uparams[i].k)
            THEN E(uparams[i].k, NetworkValue(uparams[i].k, vpc, subnets))
            ELSE uparams[i]]

(* lines 1448-1469: user_params after the resolved network is written in;
   unchanged when no network or no subnet was resolved *)
FillNetwork(uparams, keys, vpc, subnets) ==
    IF vpc = "" \/ subnets = <<>> THEN uparams
    ELSE FillDeclared(
            [i \in DOMAIN uparams |->
                IF IsVpcParamKey(uparams[i].k) /\ UseDefaultVpcValue(uparams, uparams[i].k)
                THEN E(uparams[i].k, NetworkValue(uparams[i].k, vpc, subnets))
                ELSE uparams[i]],
            keys, 1, vpc, subnets)

(* lines 1470-1480: the keys of user_params still unresolved, in order *)
UnresolvedKeys(uparams) ==
    SelectSeq([i \in DOMAIN uparams |-> uparams[i].k],
              LAMBDA key : IsVpcParamKey(key) /\ UseDefaultVpcValue(uparams, key))

(* lines 1503-1510: the Parameters list of the request *)
FinalParameters(uparams, keys) ==
    SelectSeq(uparams, LAMBDA e :
        /\ ~(IsVpcParamKey(e.k) /\ ValueLowerStrip(e.v) = "default")
        /\ (keys = {} \/ e.k \in keys))

----------------------------------------------------------------------------
(* Credentials and the EC2 lookups. *)
ASSUMED_CREDS_TTL_SEC == 300
HARDCODED_DEFAULT_VPC_ID == "vpc-0ca2fc76"
AccountDefaultVpc == "vpc-default"
CFN_TARGET_DEFAULT_VPC_ID == "vpc-target"

Call(api, identity) == [api |-> api, as |-> identity]

(* the cache still used at the instant of its expiry *)
GetCrossAccountCredentialsMutLate(role, c, t, ok) ==
    IF ~role THEN [cache |-> c.cache, expiry |-> c.expiry, creds |-> None, calls |-> <<>>]
    ELSE IF ~IsNone(c.cache) /\ t <= c.expiry
    THEN [cache |-> c.cache, expiry |-> c.expiry, creds |-> c.cache, calls |-> <<>>]
    ELSE IF ok
    THEN [cache |-> [issued |-> t], expiry |-> t + ASSUMED_CREDS_TTL_SEC,
          creds |-> [issued |-> t], calls |-> <<Call("sts:AssumeRole", "own")>>]
    ELSE [cache |-> None, expiry |-> 0, creds |-> None,
          calls |-> <<Call("sts:AssumeRole", "own")>>]

(* _get_cross_account_credentials at time t on the cache c = [cache, expiry];
   ok is the outcome of sts.assume_role when it is called.  creds is what the
   caller gets; calls are the external calls made. *)
GetCrossAccountCredentials(role, c, t, ok) ==
    IF ~role THEN [cache |-> c.cache, expiry |-> c.expiry, creds |-> None, calls |-> <<>>]
    ELSE IF ~IsNone(c.cache) /\ t < c.expiry
    THEN [cache |-> c.cache, expiry |-> c.expiry, creds |-> c.cache, calls |-> <<>>]
    ELSE IF ok
    THEN [cache |-> [issued |-> t], expiry |-> t + ASSUMED_CREDS_TTL_SEC,
          creds |-> [issued |-> t], calls |-> <<Call("sts:AssumeRole", "own")>>]
    ELSE [cache |-> None, expiry |-> 0, creds |-> None,
          calls |-> <<Call("sts:AssumeRole", "own")>>]

(* get_cfn_client / get_ec2_client: the identity the client calls under *)
Identity(g) == IF IsNone(g.creds) THEN "own" ELSE "assumed"

(* Subnets of the region and their availability zones. *)
AzOf(subnet) ==
    CASE subnet \in {"subnet-a1", "subnet-a2"} -> "az-a"
      [] subnet = "subnet-b1" -> "az-b"
      [] OTHER -> "az-c"

(* what describe_subnets(Filters=vpc-id) may list; an exception lists nothing *)
SubnetListings == {<<>>, <<"subnet-a1", "subnet-a2", "subnet-b1", "subnet-c1">>}

Reverse(sq) == [i \in DOMAIN sq |-> sq[Len(sq) + 1 - i]]

(* lines 134-139: one subnet id per zone, the first seen in the response *)
RECURSIVE FirstPerAz(_, _, _, _)
FirstPerAz(resp, i, seen, acc) ==
    IF i > Len(resp) THEN acc
    ELSE IF AzOf(resp[i]) \in seen THEN FirstPerAz(resp, i + 1, seen, acc)
    ELSE FirstPerAz(resp, i + 1, seen \cup {AzOf(resp[i])}, Append(acc, resp[i]))

(* _one_subnet_per_az: resp is the response of describe_subnets(SubnetIds),
   failed when the call raised *)
OneSubnetPerAz(ids, resp, failed) ==
    IF ids = <<>> THEN <<>>
    ELSE IF failed THEN ids
    ELSE FirstPerAz(resp, 1, {}, <<>>)

(* a suffix made of the date instead of the second *)
UniqueSuffixMutDate(t) == Digits(t \div 86400)

(* str(int(time.time()))[-8:] *)
Last8Modulus == 100000000
UniqueSuffix(t) == Digits(t % Last8Modulus)

----------------------------------------------------------------------------
(* The templates the checks range over. *)
MaxResources == 2

Res(id, type, props) == E(id, Dict(<<E("Type", Str(type)), E("Properties", Dict(props))>>))
ResNoProps(id, type) == E(id, Dict(<<E("Type", Str(type))>>))
ParamDecl(key) == E(key, Dict(<<E("Type", Str("String"))>>))
MkDoc(paramKeys, resources) ==
    (IF paramKeys = <<>> THEN <<>>
     ELSE <<E("Parameters", Dict([i \in DOMAIN paramKeys |-> ParamDecl(paramKeys[i])]))>>)
    \o <<E("Resources", Dict(resources))>>

ChildScaling ==
    Text("json", TRUE, FALSE, MkDoc(<<>>, <<
        Res("ChildPolicy", "AWS::AutoScaling::ScalingPolicy",
            <<E("TargetTrackingConfiguration",
                Dict(<<E("TargetValue", Str("50")), E("ScaleInCooldown", Str("60"))>>))>>)>>))
ChildVpc ==
    Text("json", TRUE, FALSE, MkDoc(<<>>, <<Res("ChildVpc", "AWS::EC2::VPC", <<E("CidrBlock", Str("10.0.0.0/16"))>>)>>))

PlainResources == {
    ResNoProps("Bucket", "AWS::S3::Bucket"),
    Res("Bucket2", "AWS::S3::Bucket", <<E("BucketName", Str("my-bucket"))>>),
    Res("Media_Bucket", "AWS::S3::Bucket",
        <<E("BucketName", Dict(<<E("Fn::Sub", Str("app-${AWS::AccountId}-media"))>>))>>),
    Res("Policy", "AWS::AutoScaling::ScalingPolicy",
        <<E("EstimatedWarmupSeconds", Str("60")), E("estimated_warmup_seconds", Str("30"))>>),
    Res("Tracking", "AWS::AutoScaling::ScalingPolicy",
        <<E("TargetTrackingConfiguration",
            Dict(<<E("TargetValue", Str("50")), E("ScaleInCooldown", Str("60")),
                   E("ScaleOutCooldown", Str("60"))>>))>>),
    Res("Stage", "AWS::ApiGateway::Stage",
        <<E("StageName", Str("prod")), E("LoggingLevel", Str("INFO"))>>),
    Res("Instance", "AWS::EC2::Instance",
        <<E("TagSpecifications", List(<<Dict(<<E("Tags", List(<<Str("t")>>))>>)>>))>>),
    Res("Path", "AWS::ApiGateway::Resource", <<E("PathPart", Str("{user-id}"))>>),
    Res("Logs", "AWS::Logs::LogGroup", <<E("LogGroupName", Str("my-logs"))>>),
    Res("BucketPolicy", "AWS::S3::BucketPolicy",
        <<E("PolicyText", Str("{policy}")), E("Bucket", Str("b"))>>),
    Res("Cdn", "AWS::CloudFront::Distribution",
        <<E("DistributionConfig",
            Dict(<<E("Tags", List(<<Str("t")>>)),
                   E("DefaultCacheBehavior", Dict(<<E("OriginId", Str("o"))>>))>>))>>),
    Res("Vpc", "AWS::EC2::VPC", <<E("CidrBlock", Str("10.0.0.0/16"))>>),
    Res("Queue", "AWS::SQS::Queue", <<E("QueueName", Str("q"))>>),
    Res("Child", "AWS::CloudFormation::Stack", <<E("TemplateBody", Body(ChildScaling))>>),
    Res("ChildNet", "AWS::CloudFormation::Stack", <<E("TemplateBody", Body(ChildVpc))>>)
}

(* the sequences of at most n of the resources, each at most once *)
ResourceLists(S, n) ==
    {rs \in UNION {[1..m -> S] : m \in 0..n} :
        \A i, j \in DOMAIN rs : i # j => rs[i] # rs[j]}

NormInputs ==
    {Text(f, p, fl, MkDoc(ps, rs)) :
        f \in {"json", "yaml"}, p \in BOOLEAN, fl \in BOOLEAN,
        ps \in {<<>>, <<"VpcId">>},
        rs \in ResourceLists(PlainResources, MaxResources)}

----------------------------------------------------------------------------
(* provision_cfn_stack, one action per stage of the call. *)
Failure(kind, about) == [success |-> FALSE, error |-> kind, about |-> about]
Success(action, name) == [success |-> TRUE, action |-> action, stack_name |-> name]
(* an exception that leaves provision_cfn_stack instead of a returned record *)
Raised(kind) == [raised |-> kind]

LongStackName == "a-stack-name-that-is-longer-than-the-fifty-characters-allowed"
Name50 == "a-stack-name-of-exactly-fifty-characters-in-length"
Name51 == "a-stack-name-of-exactly-fifty-one-characters-long-"
PaddedName == "  my-stack  "
PaddedName50 == "  a-stack-name-of-exactly-fifty-characters-in-length  "
BlankName == "   "

(* str.strip() on the stack names above *)
StripName(name) ==
    CASE name = PaddedName -> "my-stack"
      [] name = PaddedName50 -> Name50
      [] name = BlankName -> ""
      [] OTHER -> name

MAX_STACK_NAME_LEN == 50
EffectiveStackNameMutUntrimmed(name, t) ==
    IF Len(name) > MAX_STACK_NAME_LEN THEN [generated |-> UniqueSuffix(t)]
    ELSE [given |-> StripName(name)]
(* lines 1348-1351: the trimmed name, or a generated one when that is longer
   than 50 characters *)
EffectiveStackName(name, t) ==
    IF Len(StripName(name)) > MAX_STACK_NAME_LEN THEN [generated |-> UniqueSuffix(t)]
    ELSE [given |-> StripName(name)]

(* the StackName pattern of CloudFormation admits no empty name *)
NameAccepted(sn) == IF "generated" \in DOMAIN sn THEN TRUE ELSE sn.given # ""

(* the threads that look the credentials up concurrently *)
MaxThreads == 2
Threads == 1..MaxThreads
NoLookup ==
    conc = [pc |-> [t \in Threads |-> "idle"], at |-> [t \in Threads |-> 0],
            got |-> [t \in Threads |-> None], assumes |-> <<>>, started |-> 0]
NoLines == tl = [pc |-> "off", in |-> <<>>, out |-> <<>>]
NoPrep == prep = [pc |-> "off"]
NoRetry == rt = [pc |-> "off"]
NoSocket == ws = [pc |-> "off"]
OthersIdle == NoLookup /\ NoLines /\ NoPrep /\ NoRetry /\ NoSocket

NoCall ==
    /\ pc = "idle" /\ tplIn = None /\ callerParams = <<>> /\ stackName = None
    /\ nameIn = "" /\ describedName = None
    /\ body = None /\ stackExists = FALSE /\ stackPresent = FALSE
    /\ userParams = <<>> /\ tplKeys = {}
    /\ vpcId = "" /\ subnetIds = <<>> /\ suffixAt = 0 /\ calls = <<>>
    /\ request = None /\ result = None

(* the call arrives; lines 1342-1351.  inputs: <<template_body, parameters,
   stack_name>> triples *)
Invoke(inputs) ==
    /\ pc = "idle"
    /\ \E input \in inputs :
          /\ tplIn' = input[1]
          /\ callerParams' = input[2]
          /\ nameIn' = input[3]
          /\ body' = input[1]
          /\ IF readonly
             THEN /\ result' = Failure("ReadOnly", None)
                  /\ stackName' = None
                  /\ pc' = "done"
             ELSE /\ result' = None
                  /\ stackName' = EffectiveStackName(input[3], now)
                  /\ pc' = "gate"
    /\ UNCHANGED <<stackExists, userParams, tplKeys, vpcId, subnetIds, suffixAt, calls, request,
                   describedName>>
    /\ UNCHANGED <<otherVars, normVars, confVars, credVars, now, ticks, prevCreate, stackPresent>>

(* the gate handing over to the client construction *)
AfterGateMutSkipNormalize(found) == IF found # {} THEN "done" ELSE "client"

(* lines 1366-1374: the return on a forbidden type, else on to line 1374 *)
AfterGate(found) == IF found # {} THEN "done" ELSE "normalize"

(* lines 1352-1372 *)
PolicyGate ==
    /\ pc = "gate"
    /\ pc' = AfterGate(ForbiddenFound(body))
    /\ IF ForbiddenFound(body) # {}
       THEN result' = Failure("PolicyViolation", ForbiddenFound(body))
       ELSE UNCHANGED result
    /\ UNCHANGED <<tplIn, callerParams, nameIn, stackName, describedName, body, stackExists, userParams, tplKeys,
                   vpcId, subnetIds, suffixAt, calls, request>>
    /\ UNCHANGED <<otherVars, normVars, confVars, credVars, now, ticks, prevCreate, stackPresent>>

(* line 486: 'S3::Bucket' in result, evaluated outside the try of
   _strip_s3_bucket_names_for_auto_naming, raises TypeError on None (the two
   functions before it catch theirs and hand None on) *)
PrepareRaises(tx) == IsNone(tx)

(* lines 1373-1378, before the try of line 1380 *)
Normalize ==
    /\ pc = "normalize"
    /\ IF PrepareRaises(body)
       THEN /\ result' = Raised("TypeError")
            /\ pc' = "done"
            /\ UNCHANGED body
       ELSE /\ body' = PrepareTemplate(body)
            /\ pc' = "client"
            /\ UNCHANGED result
    /\ UNCHANGED <<tplIn, callerParams, nameIn, stackName, describedName, stackExists, userParams, tplKeys,
                   vpcId, subnetIds, suffixAt, calls, request>>
    /\ UNCHANGED <<otherVars, normVars, confVars, credVars, now, ticks, prevCreate, stackPresent>>

(* lines 1382-1386: stack_exists is True when describe_stacks returns and
   False when it raises, whether because the stack is absent or for any other
   reason (describeFails: throttling, access denied, ...) *)
DescribeSaysExists(present, describeFails) == present /\ ~describeFails

(* line 1379: get_cfn_client(), outside the try: the credentials lookup and
   boto3.client, whose exception (built = FALSE) leaves the function; then
   lines 1382-1386: the existence check *)
CheckExistence ==
    /\ pc = "client"
    /\ \E ok \in BOOLEAN, built \in BOOLEAN, present \in BOOLEAN, describeFails \in BOOLEAN :
          LET g == GetCrossAccountCredentials(roleArn, [cache |-> credsCache, expiry |-> credsExpiry], now, ok)
          IN  /\ credsCache' = g.cache
              /\ credsExpiry' = g.expiry
              /\ IF built
                 THEN /\ present \/ ~describeFails
                      /\ calls' = calls \o g.calls \o <<Call("cfn:DescribeStacks", Identity(g))>>
                      /\ stackPresent' = present
                      /\ stackExists' = DescribeSaysExists(present, describeFails)
                      /\ describedName' = stackName
                      /\ pc' = "params"
                      /\ UNCHANGED result
                 ELSE /\ ~present /\ ~describeFails
                      /\ calls' = calls \o g.calls
                      /\ UNCHANGED <<stackExists, stackPresent, describedName>>
                      /\ pc' = "done"
                      /\ result' = Raised("ClientError")
    /\ UNCHANGED <<tplIn, callerParams, nameIn, stackName, body, userParams, tplKeys,
                   vpcId, subnetIds, suffixAt, request>>
    /\ UNCHANGED <<otherVars, normVars, confVars, now, ticks, prevCreate>>

(* lines 1404-1438 *)
BuildParameters ==
    /\ pc = "params"
    /\ userParams' = UserParamsFrom(callerParams, 1, <<>>)
    /\ tplKeys' = TemplateParamKeys(body)
    /\ pc' = IF NeedVpc(body, tplKeys', userParams') THEN "net_hard" ELSE "names"
    /\ UNCHANGED <<tplIn, callerParams, nameIn, stackName, describedName, body, stackExists,
                   vpcId, subnetIds, suffixAt, calls, request, result>>
    /\ UNCHANGED <<otherVars, normVars, confVars, credVars, now, ticks, prevCreate, stackPresent>>

(* describe_subnets(Filters=vpc-id) for one network *)
ListingCall(vpc, identity) == [api |-> "ec2:DescribeSubnets", as |-> identity, vpc |-> vpc]

(* _get_subnet_ids_for_vpc(vpc): the credentials lookup of get_ec2_client, then
   describe_subnets for that network under the identity it gave *)
ListSubnets(vpc, c, t, ok) ==
    LET g == GetCrossAccountCredentials(roleArn, c, t, ok)
    IN  [cache |-> g.cache, expiry |-> g.expiry,
         calls |-> g.calls \o <<ListingCall(vpc, Identity(g))>>]

(* lines 1439-1443: the hardcoded network is tried first *)
ResolveHardcoded ==
    /\ pc = "net_hard"
    /\ \E ok \in BOOLEAN, listing \in SubnetListings :
          LET q == ListSubnets(HARDCODED_DEFAULT_VPC_ID,
                               [cache |-> credsCache, expiry |-> credsExpiry], now, ok)
          IN  /\ credsCache' = q.cache
              /\ credsExpiry' = q.expiry
              /\ calls' = calls \o q.calls
              /\ IF listing # <<>>
                 THEN /\ vpcId' = HARDCODED_DEFAULT_VPC_ID
                      /\ subnetIds' = listing
                      /\ pc' = "net_apply"
                 ELSE /\ UNCHANGED <<vpcId, subnetIds>>
                      /\ pc' = "net_default"
    /\ UNCHANGED <<tplIn, callerParams, nameIn, stackName, describedName, body, stackExists, userParams, tplKeys,
                   suffixAt, request, result>>
    /\ UNCHANGED <<otherVars, normVars, confVars, now, ticks, prevCreate, stackPresent>>

(* _get_default_vpc_and_subnets, lines 148-154 and 163-164: the account's
   default network, with whatever subnets it lists; nothing when the lookup
   raises; the fallbacks when the account has no default network *)
ResolveDefaultVpc ==
    /\ pc = "net_default"
    /\ \E ok1 \in BOOLEAN, ok2 \in BOOLEAN, vpcs \in {"error", "none", "found"},
          listing \in SubnetListings :
          LET g == GetCrossAccountCredentials(roleArn, [cache |-> credsCache, expiry |-> credsExpiry], now, ok1)
              c1 == calls \o g.calls \o <<Call("ec2:DescribeVpcs", Identity(g))>>
              q == ListSubnets(AccountDefaultVpc, [cache |-> g.cache, expiry |-> g.expiry], now, ok2)
          IN  IF vpcs = "found"
              THEN /\ credsCache' = q.cache
                   /\ credsExpiry' = q.expiry
                   /\ calls' = c1 \o q.calls
                   /\ vpcId' = AccountDefaultVpc
                   /\ subnetIds' = listing
                   /\ pc' = "net_apply"
              ELSE /\ credsCache' = g.cache
                   /\ credsExpiry' = g.expiry
                   /\ calls' = c1
                   /\ vpcId' = ""
                   /\ subnetIds' = <<>>
                   /\ pc' = IF vpcs = "none" THEN "net_fallback" ELSE "net_apply"
    /\ UNCHANGED <<tplIn, callerParams, nameIn, stackName, describedName, body, stackExists, userParams, tplKeys,
                   suffixAt, request, result>>
    /\ UNCHANGED <<otherVars, normVars, confVars, now, ticks, prevCreate, stackPresent>>

(* lines 156-162: the fallback networks, the first that lists a subnet *)
ResolveFallback ==
    /\ pc = "net_fallback"
    /\ \E ok1 \in BOOLEAN, ok2 \in BOOLEAN, l1 \in SubnetListings, l2 \in SubnetListings :
          LET first == IF targetVpc THEN CFN_TARGET_DEFAULT_VPC_ID ELSE HARDCODED_DEFAULT_VPC_ID
              q1 == ListSubnets(first, [cache |-> credsCache, expiry |-> credsExpiry], now, ok1)
              q2 == ListSubnets(HARDCODED_DEFAULT_VPC_ID,
                                [cache |-> q1.cache, expiry |-> q1.expiry], now, ok2)
              twice == targetVpc /\ l1 = <<>>
              last == IF twice THEN q2 ELSE q1
          IN  /\ credsCache' = last.cache
              /\ credsExpiry' = last.expiry
              /\ calls' = calls \o q1.calls \o (IF twice THEN q2.calls ELSE <<>>)
              /\ IF l1 # <<>>
                 THEN vpcId' = first /\ subnetIds' = l1
                 ELSE IF twice /\ l2 # <<>>
                 THEN vpcId' = HARDCODED_DEFAULT_VPC_ID /\ subnetIds' = l2
                 ELSE vpcId' = "" /\ subnetIds' = <<>>
    /\ pc' = "net_apply"
    /\ UNCHANGED <<tplIn, callerParams, nameIn, stackName, describedName, body, stackExists, userParams, tplKeys,
                   suffixAt, request, result>>
    /\ UNCHANGED <<otherVars, normVars, confVars, now, ticks, prevCreate, stackPresent>>

(* lines 1445-1480: one subnet per zone, the resolved values written into
   user_params, and the failure when a network parameter stays unresolved *)
ApplyNetwork ==
    /\ pc = "net_apply"
    /\ \E ok \in BOOLEAN, failed \in BOOLEAN, resp \in {subnetIds, Reverse(subnetIds)} :
          LET g == GetCrossAccountCredentials(roleArn, [cache |-> credsCache, expiry |-> credsExpiry], now, ok)
              looked == subnetIds # <<>>
              ids == OneSubnetPerAz(subnetIds, resp, failed)
              filled == FillNetwork(userParams, tplKeys, vpcId, ids)
              unresolved == UnresolvedKeys(filled)
          IN  /\ credsCache' = IF looked THEN g.cache ELSE credsCache
              /\ credsExpiry' = IF looked THEN g.expiry ELSE credsExpiry
              /\ calls' = IF looked
                          THEN calls \o g.calls \o <<Call("ec2:DescribeSubnets", Identity(g))>>
                          ELSE calls
              /\ subnetIds' = ids
              /\ userParams' = filled
              /\ IF unresolved # <<>>
                 THEN /\ result' = Failure("UnresolvedParameter", unresolved[1])
                      /\ pc' = "done"
                 ELSE /\ UNCHANGED result
                      /\ pc' = "names"
    /\ UNCHANGED <<tplIn, callerParams, nameIn, stackName, describedName, body, stackExists, tplKeys,
                   vpcId, suffixAt, request>>
    /\ UNCHANGED <<otherVars, normVars, confVars, now, ticks, prevCreate, stackPresent>>

(* lines 1484-1487 and 1493-1496: the keys a suffix may be written under:
   a declared key that matches case-insensitively (any of them, the set is
   iterated in no fixed order), else the canonical name when the text mentions
   it, else none *)
SuffixKeys(keys, tx, canonical, lowered) ==
    LET declared == {key \in keys : LowerStrip(key) = lowered}
    IN  IF declared # {} THEN declared
        ELSE IF TextHas(tx, "lc:" \o lowered) THEN {canonical}
        ELSE {}

(* the suffix written only when the caller gave no value *)
InjectSuffixMutKeepCaller(uparams, key, suffix) ==
    IF ValueLowerStrip(Get(uparams, key)) # "" THEN uparams ELSE Put(uparams, key, suffix)

(* lines 1488-1491 and 1497-1500: user_params[key_to_set] = unique_suffix *)
InjectSuffix(uparams, key, suffix) == Put(uparams, key, suffix)

(* the suffixes injected on either branch *)
InjectsSuffixesMutAlways(exists) == TRUE

(* line 1483: if not stack_exists *)
InjectsSuffixes(exists) == ~exists

(* lines 1481-1500 *)
InjectSuffixes ==
    /\ pc = "names"
    /\ suffixAt' = now
    /\ IF ~InjectsSuffixes(stackExists)
       THEN UNCHANGED <<userParams, tplKeys>>
       ELSE LET dbKeys == SuffixKeys(tplKeys, body, "DBInstanceIdentifierSuffix",
                                     "dbinstanceidentifiersuffix")
                bucketKeys == SuffixKeys(tplKeys, body, "BucketNameSuffix", "bucketnamesuffix")
            IN  \E dbKey \in (IF dbKeys = {} THEN {""} ELSE dbKeys),
                   bucketKey \in (IF bucketKeys = {} THEN {""} ELSE bucketKeys) :
                   LET up1 == IF dbKey = "" THEN userParams
                              ELSE InjectSuffix(userParams, dbKey, UniqueSuffix(now))
                       up2 == IF bucketKey = "" THEN up1
                              ELSE InjectSuffix(up1, bucketKey, UniqueSuffix(now))
                   IN  /\ userParams' = up2
                       /\ tplKeys' = tplKeys \cup ({dbKey, bucketKey} \ {""})
    /\ pc' = "submit"
    /\ UNCHANGED <<tplIn, callerParams, nameIn, stackName, describedName, body, stackExists,
                   vpcId, subnetIds, calls, request, result>>
    /\ UNCHANGED <<otherVars, normVars, confVars, credVars, now, ticks, prevCreate, stackPresent>>

(* the identity of the CloudFormation client made at line 1379 *)
CfnIdentity ==
    LET i == CHOOSE j \in DOMAIN calls : calls[j].api = "cfn:DescribeStacks" IN calls[i].as

(* the creation branch taken whatever the existence check said *)
SubmitActionMutAlwaysCreate(exists) == "created"

(* lines 1512-1517: if stack_exists: update_stack, 'updated'; else
   create_stack, 'created' *)
SubmitAction(exists) == IF exists THEN "updated" ELSE "created"
SubmitApi(action) == IF action = "updated" THEN "cfn:UpdateStack" ELSE "cfn:CreateStack"

(* a rejected request issued a second time *)
SubmitCallsMutRetry(api, identity, accepted) ==
    IF accepted THEN <<Call(api, identity)>> ELSE <<Call(api, identity), Call(api, identity)>>

(* lines 1512-1517 and 1527-1531: the API calls of the submission: the one
   update_stack or create_stack, whose exception goes straight to the return *)
SubmitCalls(api, identity, accepted) == <<Call(api, identity)>>

(* lines 1501-1531: the request, the one create_stack or update_stack call,
   and the returned record *)
Submit ==
    /\ pc = "submit"
    /\ \E accepted \in BOOLEAN :
          LET action == SubmitAction(stackExists)
              api == SubmitApi(action)
          IN  /\ accepted => NameAccepted(stackName)
              /\ request' = [action |-> action, StackName |-> stackName, TemplateBody |-> body,
                             HasParameters |-> userParams # <<>>,
                             Parameters |-> FinalParameters(userParams, tplKeys)]
              /\ calls' = calls \o SubmitCalls(api, CfnIdentity, accepted)
              /\ result' = IF accepted THEN Success(action, stackName)
                           ELSE Failure("SubmissionFailure", None)
    /\ pc' = "done"
    /\ UNCHANGED <<tplIn, callerParams, nameIn, stackName, describedName, body, stackExists, userParams, tplKeys,
                   vpcId, subnetIds, suffixAt>>
    /\ UNCHANGED <<otherVars, normVars, confVars, credVars, now, ticks, prevCreate, stackPresent>>

(* the DBInstanceIdentifierSuffix entries of a request's Parameters *)
DbSuffixEntries(req) ==
    SelectSeq(req.Parameters, LAMBDA e : LowerStrip(e.k) = "dbinstanceidentifiersuffix")

(* deletion allowed whatever the mode *)
DeleteBlockedMutNever(ro) == FALSE

(* lines 1537-1541: if READONLY_MODE: return the failure record *)
DeleteBlocked(ro) == ro

(* delete_cfn_stack, lines 1536-1547: the read-only check, get_cfn_client()
   outside the try (its exception leaves the function), then delete_stack,
   whose exception becomes a failure record *)
DeleteCfnStack ==
    /\ pc = "idle"
    /\ \E ok \in BOOLEAN, built \in BOOLEAN, accepted \in BOOLEAN :
          LET g == GetCrossAccountCredentials(roleArn, [cache |-> credsCache, expiry |-> credsExpiry], now, ok)
          IN  IF DeleteBlocked(readonly)
              THEN /\ ok /\ built /\ accepted
                   /\ result' = Failure("ReadOnly", None)
                   /\ UNCHANGED <<credsCache, credsExpiry, calls>>
              ELSE /\ credsCache' = g.cache
                   /\ credsExpiry' = g.expiry
                   /\ IF ~built
                      THEN /\ accepted
                           /\ calls' = calls \o g.calls
                           /\ result' = Raised("ClientError")
                      ELSE /\ calls' = calls \o g.calls \o <<Call("cfn:DeleteStack", Identity(g))>>
                           /\ result' = IF accepted
                                        THEN [success |-> TRUE, message |-> "deletion started"]
                                        ELSE Failure("DeleteFailure", None)
    /\ pc' = "delete_done"
    /\ UNCHANGED <<tplIn, callerParams, nameIn, stackName, describedName, body, stackExists, stackPresent, userParams,
                   tplKeys, vpcId, subnetIds, suffixAt, request>>
    /\ UNCHANGED <<otherVars, normVars, confVars, now, ticks, prevCreate>>

(* the call has returned; the next one starts from scratch *)
Return ==
    /\ pc \in {"done", "delete_done"}
    /\ pc' = "idle"
    /\ prevCreate' = IF ~IsNone(request) /\ request.action = "created"
                        /\ DbSuffixEntries(request) # <<>>
                     THEN [at |-> suffixAt, entries |-> DbSuffixEntries(request)]
                     ELSE prevCreate
    /\ tplIn' = None /\ callerParams' = <<>> /\ stackName' = None /\ body' = None
    /\ nameIn' = "" /\ describedName' = None
    /\ stackExists' = FALSE /\ stackPresent' = FALSE /\ userParams' = <<>> /\ tplKeys' = {}
    /\ vpcId' = "" /\ subnetIds' = <<>> /\ suffixAt' = 0 /\ calls' = <<>>
    /\ request' = None /\ result' = None
    /\ UNCHANGED <<otherVars, normVars, confVars, credVars, now, ticks>>

(* Time passes: a second, or the lifetime of the cached credentials. *)
MaxTicks == 1
Epoch0 == 1799999999
Tick ==
    /\ pc = "idle"
    /\ ticks < MaxTicks
    /\ \E step \in {1, ASSUMED_CREDS_TTL_SEC} : now' = now + step
    /\ ticks' = ticks + 1
    /\ UNCHANGED <<otherVars, normVars, confVars, credVars, callVars, prevCreate>>

(* The calls the checks range over. *)
Db == Res("Db", "AWS::RDS::DBInstance",
          <<E("DBInstanceIdentifier", Dict(<<E("Fn::Sub", Str("appDB-${DBInstanceIdentifierSuffix}"))>>))>>)
Queue == Res("Queue", "AWS::SQS::Queue", <<E("QueueName", Str("q"))>>)
Vpc == Res("Vpc", "AWS::EC2::VPC", <<E("CidrBlock", Str("10.0.0.0/16"))>>)
ChildNet == Res("ChildNet", "AWS::CloudFormation::Stack", <<E("TemplateBody", Body(ChildVpc))>>)
Bucket2 == Res("Bucket2", "AWS::S3::Bucket", <<E("BucketName", Str("my-bucket"))>>)

(* format, and whether yaml.safe_load accepts the text: YAML that uses the
   short intrinsic tags (!Ref, !Sub) does not load *)
Json == <<"json", TRUE>>
Yaml == <<"yaml", TRUE>>
TaggedYaml == <<"yaml", FALSE>>
BrokenJson == <<"json", FALSE>>
Template(form, declared, resource) ==
    Text(form[1], form[2], FALSE, MkDoc(declared, <<resource>>))

NoKeys == <<>>
NetKeys == <<"VpcId", "PublicSubnetIds">>
DbKeys == <<"X", "DBInstanceIdentifierSuffix">>
XYKeys == <<"X", "Y">>

PDefault == <<E("VpcId", Str("default"))>>
PDefaultCased == <<E("vpcid", Str(" Default ")), E("PublicSubnetIds", Str(""))>>
PVpcGiven == <<E("VpcId", Str("vpc-user"))>>
PDbSuffix == <<E("DBInstanceIdentifierSuffix", Str("mydb"))>>
PBucketSuffix == <<E("BucketNameSuffix", Str("mine"))>>
PZ == <<E("Z", Str("1"))>>
PXYZ == <<E("X", Str("x")), E("Y", Str("y")), E("Z", Str("1"))>>
PNoKey == <<E("", Str("skipped")), E("X", Str("x"))>>

GateCalls ==
    {<<Template(form, NoKeys, r), <<>>, "my-stack">> :
        form \in {Json, Yaml, TaggedYaml}, r \in {Vpc, ChildNet}}
FilterCalls ==
    {<<Template(Json, declared, Queue), ps, "my-stack">> :
        declared \in {NoKeys, XYKeys}, ps \in {PZ, PXYZ, PNoKey}}
    \cup {<<Template(Yaml, NoKeys, Queue), <<>>, LongStackName>>}
NetworkCalls ==
    {<<Template(Json, NetKeys, Queue), ps, "my-stack">> :
        ps \in {<<>>, PDefault, PDefaultCased, PVpcGiven}}
    \cup {<<Template(Json, XYKeys, Queue), PVpcGiven, "my-stack">>}
    \cup {<<Template(TaggedYaml, NetKeys, Queue), <<>>, "my-stack">>,
          <<Template(Json, NoKeys, Queue), PDefault, "my-stack">>}
SuffixCalls ==
    {<<Template(Json, declared, Db), ps, "my-stack">> :
        declared \in {NoKeys, DbKeys, XYKeys}, ps \in {<<>>, PDbSuffix, PBucketSuffix}}
    \cup {<<Template(TaggedYaml, DbKeys, Db), <<>>, "my-stack">>}
    \cup {<<Template(Json, NoKeys, Bucket2), ps, "my-stack">> : ps \in {<<>>, PBucketSuffix}}
(* templates that neither json.loads nor yaml.safe_load accepts *)
UnparsedCalls ==
    {<<Template(form, NoKeys, Bucket2), <<>>, "my-stack">> : form \in {TaggedYaml, BrokenJson}}
(* a call without a template body *)
MissingCalls == {<<None, <<>>, "my-stack">>}
(* stack names that need trimming, at the length limit, and without a name *)
NameCalls ==
    {<<Template(Json, NoKeys, Queue), <<>>, name>> :
        name \in {PaddedName, Name50, PaddedName50, Name51, BlankName, ""}}
Calls == GateCalls \cup FilterCalls \cup NetworkCalls \cup SuffixCalls \cup UnparsedCalls
         \cup MissingCalls \cup NameCalls

(* MCP_READONLY, the cross-account role and CFN_TARGET_DEFAULT_VPC_ID, as
   <<readonly, roleArn, targetVpc>> *)
Environments ==
    {<<FALSE, FALSE, FALSE>>, <<FALSE, FALSE, TRUE>>, <<FALSE, TRUE, TRUE>>,
     <<TRUE, FALSE, FALSE>>, <<TRUE, TRUE, FALSE>>}

Init ==
    /\ nIn = None /\ nOut1 = None /\ nOut2 = None /\ nPc = 2
    /\ \E env \in Environments :
          readonly = env[1] /\ roleArn = env[2] /\ targetVpc = env[3]
    /\ credsCache = None /\ credsExpiry = 0
    /\ now = Epoch0 /\ ticks = 0
    /\ NoCall
    /\ prevCreate = None
    /\ OthersIdle

Next ==
    \/ Invoke(Calls)
    \/ PolicyGate
    \/ Normalize
    \/ CheckExistence
    \/ BuildParameters
    \/ ResolveHardcoded
    \/ ResolveDefaultVpc
    \/ ResolveFallback
    \/ ApplyNetwork
    \/ InjectSuffixes
    \/ Submit
    \/ DeleteCfnStack
    \/ Return
    \/ Tick

Spec == Init /\ [][Next]_vars

----------------------------------------------------------------------------
(* What the properties read off a call. *)

(* the resources of a template whose type is in the deny-set, at the top level *)
DeniedAtTop(tx) ==
    LET resources == IF IsNone(tx) THEN <<>> ELSE GetOrEmpty(tx.doc, "Resources")
    IN  {i \in DOMAIN resources :
            /\ IsDict(resources[i].v)
            /\ IsStr(Get(resources[i].v.d, "Type"))
            /\ Get(resources[i].v.d, "Type").s \in FORBIDDEN_RESOURCE_TYPES}

(* the deny-set types a template creates at any nesting depth *)
RECURSIVE DeniedIn(_)
DeniedIn(tx) ==
    LET resources == GetOrEmpty(tx.doc, "Resources")
        nested(i) == IF IsDict(resources[i].v)
                     THEN Get(GetOrEmpty(resources[i].v.d, "Properties"), "TemplateBody")
                     ELSE None
    IN  {Get(resources[i].v.d, "Type").s : i \in DeniedAtTop(tx)}
        \cup UNION {IF IsBody(nested(i)) THEN DeniedIn(nested(i).t) ELSE {} : i \in DOMAIN resources}

(* the keys of a template's Parameters section *)
DeclaredIn(tx) ==
    LET ps == Get(tx.doc, "Parameters") IN IF IsDict(ps) THEN Keys(ps.d) ELSE {}

NetworkNames == {"vpcid", "publicsubnetids", "privatesubnetids", "subnetid"}
SuffixNames == {"dbinstanceidentifiersuffix", "bucketnamesuffix"}

IsDefaultLiteral(e) == LowerStrip(e.k) \in NetworkNames /\ ValueLowerStrip(e.v) = "default"

(* the caller's parameters as a key/value mapping *)
CallerEntries == UserParamsFrom(callerParams, 1, <<>>)
CallerSentDefault == \E i \in DOMAIN CallerEntries : IsDefaultLiteral(CallerEntries[i])
SuffixEntries(ps) == SelectSeq(ps, LAMBDA e : LowerStrip(e.k) \in SuffixNames)

(* how the call ended: a returned failure record, or an exception *)
Failed == pc = "done" /\ "success" \in DOMAIN result /\ ~result.success
Escaped == pc = "done" /\ "raised" \in DOMAIN result

LookedForSubnets == \E i \in DOMAIN calls : calls[i].api = "ec2:DescribeSubnets"
OnePerZone(ids) == \A i, j \in DOMAIN ids : i # j => AzOf(ids[i]) # AzOf(ids[j])

(* the last 8 decimal digits of t *)
Last8(t) == t - (t \div 100000000) * 100000000

Created == ~IsNone(request) /\ request.action = "created"
Updated == ~IsNone(request) /\ request.action = "updated"

(* C1: a call whose template has a resource of a denied type returns
   success:false and has made no external call. *)
C1_DeniedRejectedWithoutCalls ==
    (pc = "done" /\ DeniedAtTop(tplIn) # {}) => (Failed /\ calls = <<>>)

(* C2: no template body handed to create_stack or update_stack contains a
   resource of a denied type, at any nesting depth, in either format. *)
C2_NoDeniedSubmitted == ~IsNone(request) => DeniedIn(request.TemplateBody) = {}

(* C3: every key of the Parameters list sent is declared in the Parameters
   section of the submitted template. *)
C3_OnlyDeclaredSent ==
    ~IsNone(request) =>
        \A i \in DOMAIN request.Parameters :
            request.Parameters[i].k \in DeclaredIn(request.TemplateBody)

(* C4: no network parameter is submitted with the literal "default"; when the
   caller sent one, the call either submits nothing (it fails with the
   unresolved-parameter error, or ends in an exception), or submits with
   every network value concrete. *)
C4_DefaultNeverSubmitted ==
    /\ ~IsNone(request) =>
          \A i \in DOMAIN request.Parameters : ~IsDefaultLiteral(request.Parameters[i])
    /\ (pc = "done" /\ calls # <<>> /\ CallerSentDefault) =>
          \/ Failed /\ result.error = "UnresolvedParameter" /\ IsNone(request)
          \/ Escaped /\ IsNone(request)
          \/ /\ ~IsNone(request)
             /\ \A i \in DOMAIN userParams : ~IsDefaultLiteral(userParams[i])

(* a caller's "default" for VpcId was replaced by a resolved id and submitted *)
C4_Witness ==
    /\ pc = "done" /\ CallerSentDefault /\ ~IsNone(request)
    /\ \E i \in DOMAIN request.Parameters :
          request.Parameters[i] = E("VpcId", Str(HARDCODED_DEFAULT_VPC_ID))

(* C5: when the template declares a network parameter the caller left unset
   and no candidate network lists a subnet, the call fails with the
   unresolved-parameter error and issues no create or update request. *)
C5_UnresolvedDeclaredFails ==
    (/\ pc = "done" /\ LookedForSubnets /\ subnetIds = <<>>
     /\ \E key \in DeclaredIn(tplIn) :
           /\ LowerStrip(key) \in NetworkNames
           /\ ValueLowerStrip(Get(CallerEntries, key)) \in {"", "default"})
    => (Failed /\ result.error = "UnresolvedParameter" /\ IsNone(request))

(* C6: the subnet ids kept after the zone lookup, and those written into the
   subnet parameters, have at most one subnet per availability zone, whatever
   the outcome of the lookup. *)
C6_OneSubnetPerZone ==
    pc \in {"names", "submit", "done"} =>
        /\ OnePerZone(subnetIds)
        /\ \A i \in DOMAIN userParams :
              "ids" \in DOMAIN userParams[i].v => OnePerZone(userParams[i].v.ids)

(* C7: a creation whose clock sample is one second after the previous
   creation's, with the database suffix referenced by the template and unset
   by the caller, submits the last 8 digits of its own sample, which differ
   from what the previous creation submitted. *)
C7_SuffixesDiffer ==
    (/\ pc = "done" /\ Created /\ DbSuffixEntries(request) # <<>>
     /\ SuffixEntries(CallerEntries) = <<>>
     /\ ~IsNone(prevCreate) /\ suffixAt = prevCreate.at + 1)
    => \A i \in DOMAIN DbSuffixEntries(request) :
          /\ DbSuffixEntries(request)[i].v = Digits(Last8(suffixAt))
          /\ \A j \in DOMAIN prevCreate.entries :
                prevCreate.entries[j].v # DbSuffixEntries(request)[i].v

(* two creations one second apart, the second at the point of returning *)
C7_Witness ==
    /\ pc = "done" /\ Created /\ DbSuffixEntries(request) # <<>>
    /\ SuffixEntries(CallerEntries) = <<>>
    /\ ~IsNone(prevCreate) /\ suffixAt = prevCreate.at + 1

(* C8, as stated: on the update branch the suffix parameters sent are exactly
   those the caller supplied, with the caller's values. *)
C8_UpdateSendsCallerSuffixes ==
    Updated => SuffixEntries(request.Parameters) = SuffixEntries(CallerEntries)

(* C8, amended: on the update branch no suffix is generated; a suffix
   parameter is sent, with the caller's value, when the caller supplied it and
   the parameter filter lets it through (the declared key set is empty or has
   the key); otherwise it is absent. *)
C8_UpdateKeepsCallerSuffixes ==
    Updated =>
        SuffixEntries(request.Parameters) =
            SelectSeq(SuffixEntries(CallerEntries), LAMBDA e : tplKeys = {} \/ e.k \in tplKeys)

(* an update that sends the database suffix the caller supplied *)
C8_Witness ==
    Updated /\ SuffixEntries(request.Parameters) = PDbSuffix /\ CallerEntries = PDbSuffix

(* C9, as stated: on creation a suffix parameter the caller supplied with a
   non-empty value is submitted with that value. *)
C9_CreateKeepsCallerSuffix ==
    Created =>
        \A i \in DOMAIN SuffixEntries(request.Parameters) :
            LET e == SuffixEntries(request.Parameters)[i]
            IN  ValueLowerStrip(Get(CallerEntries, e.k)) # "" => e.v = Get(CallerEntries, e.k)

(* C9, amended: on creation a suffix parameter the template mentions is
   submitted with the generated suffix whatever the caller supplied; one the
   template does not mention keeps the caller's value. *)
C9_CreateOverwritesSuffix ==
    Created =>
        \A i \in DOMAIN SuffixEntries(request.Parameters) :
            LET e == SuffixEntries(request.Parameters)[i]
            IN  IF TextHas(request.TemplateBody, "lc:" \o LowerStrip(e.k))
                THEN e.v = Digits(Last8(suffixAt))
                ELSE e.v = Get(CallerEntries, e.k)

(* a creation that replaced the database suffix the caller supplied *)
C9_Witness ==
    /\ Created /\ CallerEntries = PDbSuffix
    /\ \E i \in DOMAIN request.Parameters :
          request.Parameters[i] = E("DBInstanceIdentifierSuffix", Digits(Last8(suffixAt)))

----------------------------------------------------------------------------
(* Normalization applied to a template, and then to its own output. *)
NormInit ==
    /\ nIn \in NormInputs
    /\ nOut1 = nIn
    /\ nOut2 = nIn
    /\ nPc = 0
    /\ readonly = FALSE /\ roleArn = FALSE /\ targetVpc = FALSE
    /\ credsCache = None /\ credsExpiry = 0
    /\ now = Epoch0 /\ ticks = 0
    /\ NoCall
    /\ prevCreate = None
    /\ OthersIdle

NormalizeOnce ==
    /\ nPc = 0
    /\ nOut1' = NormalizeCfnTemplateForProvision(nIn)
    /\ nPc' = 1
    /\ UNCHANGED <<nIn, nOut2>>
    /\ UNCHANGED <<otherVars, confVars, credVars, now, ticks, callVars, prevCreate>>

NormalizeAgain ==
    /\ nPc = 1
    /\ nOut2' = NormalizeCfnTemplateForProvision(nOut1)
    /\ nPc' = 2
    /\ UNCHANGED <<nIn, nOut1>>
    /\ UNCHANGED <<otherVars, confVars, credVars, now, ticks, callVars, prevCreate>>

NormNext == NormalizeOnce \/ NormalizeAgain

SpecNorm == NormInit /\ [][NormNext]_vars

(* C10: normalizing the output of a normalization yields a document
   structurally equal to that output. *)
C10_Idempotent == nPc = 2 => StructurallyEqual(nOut2, nOut1)

----------------------------------------------------------------------------
(* The S3 buckets of a template and their BucketName. *)
ResourcesOf(tx) == GetOrEmpty(tx.doc, "Resources")
BucketIds(tx) ==
    {e.k : e \in {r \in Range(ResourcesOf(tx)) :
                    IsDict(r.v) /\ Get(r.v.d, "Type") = Str("AWS::S3::Bucket")}}
BucketNameIn(tx, id) ==
    LET rdef == Get(ResourcesOf(tx), id)
    IN  IF IsDict(rdef) THEN Get(GetOrEmpty(rdef.d, "Properties"), "BucketName") ELSE None
HasPlaceholder(v) ==
    ~IsNone(v) /\ \E str \in StringsOfVal(v) : "${BucketNameSuffix}" \in Tokens(str)

(* C11: after normalization of a template that parses, every AWS::S3::Bucket
   whose BucketName was absent or did not contain 'bucketnamesuffix' has a
   BucketName containing ${BucketNameSuffix} and the document declares the
   BucketNameSuffix parameter; a BucketName that already contained the
   placeholder is unchanged. *)
C11_BucketsGetSuffix ==
    (nPc >= 1 /\ nIn.parses) =>
        \A id \in BucketIds(nIn) :
            IF S3BucketNameUsesSuffix(BucketNameIn(nIn, id))
            THEN BucketNameIn(nOut1, id) = BucketNameIn(nIn, id)
            ELSE /\ HasPlaceholder(BucketNameIn(nOut1, id))
                 /\ HasKey(GetOrEmpty(nOut1.doc, "Parameters"), "BucketNameSuffix")

----------------------------------------------------------------------------
(* The create_stack / update_stack calls of the current invocation. *)
SubmissionApis == {"cfn:CreateStack", "cfn:UpdateStack"}
Submissions == SelectSeq(calls, LAMBDA c : c.api \in SubmissionApis)
Rejected == Failed /\ result.error = "SubmissionFailure"

(* C12: an invocation issues at most one create_stack or update_stack call;
   one that reaches submission issues exactly one; and when the API rejects
   the request the call returns success:false with that one request issued
   and nothing retried. *)
C12_ExactlyOneRequest ==
    /\ Len(Submissions) <= 1
    /\ (pc = "done" /\ ~IsNone(request)) => Len(Submissions) = 1
    /\ Rejected => (Len(Submissions) = 1 /\ ~IsNone(request))
    /\ (pc = "done" /\ IsNone(request)) => Len(Submissions) = 0
C12_Witness == Rejected /\ Len(Submissions) = 1

----------------------------------------------------------------------------
(* C13: every invocation ends with a returned record: success:false with an
   error, or success with action created or updated; no exception leaves
   provision_cfn_stack, whatever the input and whichever external call or
   client construction fails. *)
C13_NoExceptionEscapes ==
    pc = "done" =>
        /\ ~Escaped
        /\ \/ Failed
           \/ result.success /\ result.action \in {"created", "updated"}

----------------------------------------------------------------------------
(* the CloudFormation requests of the call made under the caller's own identity *)
StackApis == {"cfn:DescribeStacks", "cfn:CreateStack", "cfn:UpdateStack"}
OwnIdentityRequests == SelectSeq(calls, LAMBDA c : c.api \in StackApis /\ c.as = "own")

(* C14: with a cross-account role configured, no describe_stacks,
   create_stack or update_stack request is made under the caller's own
   identity (a failed assume-role ends the call instead); the own identity is
   used only when no role is configured. *)
C14_NoFallbackWithRole == roleArn => OwnIdentityRequests = <<>>

----------------------------------------------------------------------------
(* positions in calls of the existence check and of the submission *)
DescribeAt == {i \in DOMAIN calls : calls[i].api = "cfn:DescribeStacks"}
SubmitAt(api) == {i \in DOMAIN calls : calls[i].api = api}
DescribePrecedesSubmit ==
    \A j \in SubmitAt("cfn:CreateStack") \cup SubmitAt("cfn:UpdateStack") :
        \E i \in DescribeAt : i < j
Succeeded == pc = "done" /\ "success" \in DOMAIN result /\ result.success

(* C15, as stated: describe_stacks precedes the submission; update_stack is
   called, and the action is 'updated', if and only if the stack exists, and
   create_stack, 'created', if and only if it does not. *)
C15_BranchFollowsExistence ==
    /\ DescribePrecedesSubmit
    /\ ~IsNone(request) =>
          /\ (SubmitAt("cfn:UpdateStack") # {}) <=> stackPresent
          /\ (SubmitAt("cfn:CreateStack") # {}) <=> ~stackPresent
          /\ request.action = (IF stackPresent THEN "updated" ELSE "created")

(* C15, amended: describe_stacks precedes the submission and its outcome
   alone decides the branch: update_stack, 'updated', if and only if
   describe_stacks returned; create_stack, 'created', if and only if it
   raised, for whatever reason. *)
C15_BranchFollowsCheck ==
    /\ DescribePrecedesSubmit
    /\ ~IsNone(request) =>
          /\ (SubmitAt("cfn:UpdateStack") # {}) <=> stackExists
          /\ (SubmitAt("cfn:CreateStack") # {}) <=> ~stackExists
          /\ request.action = (IF stackExists THEN "updated" ELSE "created")
          /\ Succeeded => result.action = request.action

(* an update went through after describe_stacks found the stack *)
C15_Witness ==
    /\ Succeeded /\ result.action = "updated" /\ stackExists
    /\ SubmitAt("cfn:UpdateStack") # {} /\ DescribePrecedesSubmit

----------------------------------------------------------------------------
(* a call of either tool has ended with a returned failure record *)
EndedInFailure ==
    pc \in {"done", "delete_done"} /\ "success" \in DOMAIN result /\ ~result.success

(* C16: while READONLY_MODE is on, a call of provision_cfn_stack or
   delete_cfn_stack goes nowhere past its first check: it ends with
   success:false, and no external call (assume-role, describe, create,
   update, delete, EC2 lookup) is made and no request is built. *)
C16_ReadOnlyDoesNothing ==
    readonly =>
        /\ pc \in {"idle", "done", "delete_done"}
        /\ pc # "idle" => EndedInFailure
        /\ calls = <<>>
        /\ IsNone(request)
        /\ IsNone(credsCache)

(* a deletion refused in read-only mode, with a cross-account role configured *)
C16_Witness ==
    readonly /\ roleArn /\ pc = "delete_done" /\ EndedInFailure /\ result.error = "ReadOnly" /\ calls = <<>>

----------------------------------------------------------------------------
(* the call's template is text that does not parse *)
Unparsed == ~IsNone(tplIn) /\ ~tplIn.parses

(* C17: a call whose template parses neither as JSON nor as YAML is not
   turned away for that: it ends without a request only for another reason
   (read-only mode, an unresolved network parameter, an exception of the
   client construction); otherwise its one request carries the text as the
   textual fallbacks of the preparation left it. *)
C17_UnparsedStillSubmitted ==
    (pc = "done" /\ Unparsed) =>
        IF IsNone(request)
        THEN \/ Escaped
             \/ Failed /\ result.error \in {"ReadOnly", "UnresolvedParameter"}
        ELSE /\ request.TemplateBody = PrepareTemplate(tplIn)
             /\ Len(Submissions) = 1

(* an unparsed template with a bucket name was submitted without that line *)
C17_Witness ==
    /\ Succeeded /\ Unparsed /\ ~IsNone(request)
    /\ request.TemplateBody = PrepareTemplate(tplIn)
    /\ request.TemplateBody # tplIn

----------------------------------------------------------------------------
(* The stage a position of provision_cfn_stack belongs to, and the position's
   place in the code. *)
StageOf(p) ==
    CASE p = "gate" -> 1
      [] p = "normalize" -> 2
      [] p \in {"client", "params", "net_hard", "net_default", "net_fallback",
                "net_apply", "names"} -> 3
      [] p = "submit" -> 4
      [] OTHER -> 5
PlaceOf(p) ==
    CASE p = "gate" -> 1 [] p = "normalize" -> 2 [] p = "client" -> 3 [] p = "params" -> 4
      [] p = "net_hard" -> 5 [] p = "net_default" -> 6 [] p = "net_fallback" -> 7
      [] p = "net_apply" -> 8 [] p = "names" -> 9 [] p = "submit" -> 10 [] OTHER -> 11
InCall(p) == p \notin {"idle", "done", "delete_done"}
OutcomesOf(r, req) ==
    {o \in {"created", "updated", "failed"} :
        \/ o = "failed" /\ ("raised" \in DOMAIN r \/ ("success" \in DOMAIN r /\ ~r.success))
        \/ /\ o # "failed" /\ "success" \in DOMAIN r /\ r.success
           /\ r.action = o /\ ~IsNone(req) /\ req.action = o}

(* C18: every step of an invocation stays in its stage or moves to the next
   of policy gate, normalization, resolution, submission, or ends the
   invocation; no step goes back, the invocation starts at the gate, each step
   moves forward in the code (so the invocation ends), and it ends in exactly
   one of created, updated or failed (a propagated exception counts as
   failed). *)
C18_StagesInOrder ==
    [][/\ (pc = "idle" /\ pc' # "idle" /\ pc' # "delete_done") => pc' \in {"gate", "done"}
       /\ (InCall(pc) /\ pc' # pc) =>
             /\ pc' # "idle"
             /\ PlaceOf(pc') > PlaceOf(pc)
             /\ StageOf(pc') \in {StageOf(pc), StageOf(pc) + 1} \/ pc' = "done"
       /\ (pc # "done" /\ pc' = "done") => Cardinality(OutcomesOf(result', request')) = 1
       /\ (pc = "submit" /\ pc' = "done") =>
             OutcomesOf(result', request') \subseteq {"failed", request'.action}
      ]_vars

(* a creation that went through every stage, network resolution included *)
C18_Witness ==
    /\ Succeeded /\ result.action = "created" /\ LookedForSubnets
    /\ Len(Submissions) = 1 /\ request.TemplateBody = PrepareTemplate(tplIn)

----------------------------------------------------------------------------
(* the networks whose subnets the call has listed, in order *)
ListingCalls == SelectSeq(calls, LAMBDA c : "vpc" \in DOMAIN c)
Tried == {ListingCalls[i].vpc : i \in DOMAIN ListingCalls}
FirstTry(vpc) == CHOOSE i \in DOMAIN ListingCalls :
                    ListingCalls[i].vpc = vpc /\ \A j \in 1..(i - 1) : ListingCalls[j].vpc # vpc
ResolutionOver == pc \in {"net_apply", "names", "submit", "done"} /\ Tried # {}

(* C19: the candidates are listed in the order hardcoded network, account
   default network, operator-supplied override; the network used is one that
   listed a subnet; and resolution ends without a network only after every
   candidate was tried, the override included when it is configured. *)
C19_EveryCandidateTried ==
    ResolutionOver =>
        /\ FirstTry(HARDCODED_DEFAULT_VPC_ID) = 1
        /\ AccountDefaultVpc \in Tried => FirstTry(AccountDefaultVpc) = 2
        /\ (CFN_TARGET_DEFAULT_VPC_ID \in Tried /\ AccountDefaultVpc \in Tried)
              => FirstTry(AccountDefaultVpc) < FirstTry(CFN_TARGET_DEFAULT_VPC_ID)
        /\ vpcId # "" => vpcId \in Tried
        /\ (pc = "net_apply" /\ subnetIds = <<>> /\ targetVpc)
              => CFN_TARGET_DEFAULT_VPC_ID \in Tried

----------------------------------------------------------------------------
(* the caller's entries for the three network parameters whose value is
   neither empty nor "default" *)
CallerNetworkValues ==
    SelectSeq(CallerEntries, LAMBDA e :
        /\ e.k \in {"VpcId", "PublicSubnetIds", "PrivateSubnetIds"}
        /\ ValueLowerStrip(e.v) \notin {"", "default"})
SentFor(key) == SelectSeq(request.Parameters, LAMBDA e : e.k = key)

(* C20, as stated: every caller value for VpcId, PublicSubnetIds or
   PrivateSubnetIds that is neither empty nor "default" is in the submitted
   parameter list, unchanged. *)
C20_CallerNetworkValueSent ==
    ~IsNone(request) =>
        \A i \in DOMAIN CallerNetworkValues : SentFor(CallerNetworkValues[i].k) = <<CallerNetworkValues[i]>>

(* C20, amended: such a caller value is never replaced by a resolved one: it
   is submitted unchanged when the final filter lets its key through (no
   declared key was detected, or the key is declared), and is absent from the
   submitted list otherwise. *)
C20_CallerNetworkValueKept ==
    ~IsNone(request) =>
        \A i \in DOMAIN CallerNetworkValues :
            LET e == CallerNetworkValues[i]
            IN  IF tplKeys = {} \/ e.k \in tplKeys
                THEN SentFor(e.k) = <<e>>
                ELSE SentFor(e.k) = <<>>

(* the caller's VpcId was submitted although another network was resolved and
   written into the subnet parameter *)
C20_Witness ==
    /\ ~IsNone(request) /\ CallerEntries = PVpcGiven
    /\ vpcId \notin {"", "vpc-user"} /\ subnetIds # <<>>
    /\ SentFor("VpcId") = PVpcGiven
    /\ SentFor("PublicSubnetIds") # <<>>

----------------------------------------------------------------------------
(* a step that looks the credentials up at least once: the client
   constructions of provision_cfn_stack and delete_cfn_stack *)
LookupStep ==
    \/ pc \in {"client", "net_hard", "net_default", "net_fallback"}
    \/ pc = "net_apply" /\ subnetIds # <<>>
    \/ pc = "idle" /\ pc' = "delete_done" /\ ~readonly
CacheFresh == ~IsNone(credsCache) /\ now < credsExpiry
NewCalls == SubSeq(calls', Len(calls) + 1, Len(calls'))
NewAssumes == SelectSeq(NewCalls, LAMBDA c : c.api = "sts:AssumeRole")

(* C21: with a role configured, a step that looks the credentials up calls
   assume-role if and only if the cache is empty or the time is at or past the
   cached expiry; on a fresh cache it leaves cache and expiry alone and every
   call it makes is under the cached credentials; afterwards the cache is
   either empty with expiry 0 or holds credentials whose expiry is their
   assumption time + 300 s. *)
C21_RefreshOnlyWhenStale ==
    [][(roleArn /\ LookupStep) =>
          /\ CacheFresh =>
                /\ NewAssumes = <<>>
                /\ credsCache' = credsCache /\ credsExpiry' = credsExpiry
                /\ \A i \in DOMAIN NewCalls : NewCalls[i].as = "assumed"
          /\ ~CacheFresh => NewAssumes # <<>>
          /\ IsNone(credsCache') => credsExpiry' = 0
          /\ ~IsNone(credsCache') =>
                credsExpiry' = credsCache'.issued + ASSUMED_CREDS_TTL_SEC
      ]_vars

(* credentials assumed by an earlier invocation reused a second later,
   without an assume-role call *)
C21_Witness ==
    /\ roleArn /\ now = Epoch0 + 1 /\ ~IsNone(credsCache) /\ credsCache.issued = Epoch0
    /\ calls # <<>> /\ \A i \in DOMAIN calls : calls[i].api # "sts:AssumeRole"
    /\ \E i \in DOMAIN calls : calls[i].as = "assumed"

----------------------------------------------------------------------------
(* _get_cross_account_credentials run by several threads of the host at once,
   with a role configured.  The function takes no lock, so the threads
   interleave between any two of its statements: one action per statement
   that reads or writes the module globals or calls out. *)
MaxInvocations == 3

ConcVarsRest == <<normVars, confVars, now, ticks, callVars, prevCreate, tl, prep, rt, ws>>

(* lines 52-56: entry, now = time.time() *)
ConcEnter(t) ==
    /\ conc.pc[t] = "idle" /\ conc.started < MaxInvocations
    /\ conc' = [conc EXCEPT !.pc[t] = "check", !.at[t] = now, !.got[t] = None,
                            !.started = @ + 1]
    /\ UNCHANGED <<credVars, ConcVarsRest>>

(* line 57: the staleness test on the two globals *)
ConcCheck(t) ==
    /\ conc.pc[t] = "check"
    /\ conc' = [conc EXCEPT !.pc[t] =
                    IF ~IsNone(credsCache) /\ conc.at[t] < credsExpiry THEN "return" ELSE "assume"]
    /\ UNCHANGED <<credVars, ConcVarsRest>>

(* lines 60-65: sts.assume_role, which returns or raises *)
ConcAssume(t) ==
    /\ conc.pc[t] = "assume"
    /\ \E ok \in BOOLEAN :
          conc' = [conc EXCEPT !.pc[t] = IF ok THEN "store_cache" ELSE "fail_cache",
                               !.assumes = Append(@, [by |-> t, at |-> conc.at[t], ok |-> ok])]
    /\ UNCHANGED <<credVars, ConcVarsRest>>

(* lines 67-71: _assumed_creds_cache = {...} *)
ConcStoreCache(t) ==
    /\ conc.pc[t] = "store_cache"
    /\ credsCache' = [issued |-> conc.at[t]]
    /\ conc' = [conc EXCEPT !.pc[t] = "store_expiry"]
    /\ UNCHANGED <<credsExpiry, ConcVarsRest>>

(* line 72: _assumed_creds_expiry = now + ASSUMED_CREDS_TTL_SEC *)
ConcStoreExpiry(t) ==
    /\ conc.pc[t] = "store_expiry"
    /\ credsExpiry' = conc.at[t] + ASSUMED_CREDS_TTL_SEC
    /\ conc' = [conc EXCEPT !.pc[t] = "return"]
    /\ UNCHANGED <<credsCache, ConcVarsRest>>

(* line 75: _assumed_creds_cache = None *)
ConcFailCache(t) ==
    /\ conc.pc[t] = "fail_cache"
    /\ credsCache' = None
    /\ conc' = [conc EXCEPT !.pc[t] = "fail_expiry"]
    /\ UNCHANGED <<credsExpiry, ConcVarsRest>>

(* lines 76-77: _assumed_creds_expiry = 0; return None *)
ConcFailExpiry(t) ==
    /\ conc.pc[t] = "fail_expiry"
    /\ credsExpiry' = 0
    /\ conc' = [conc EXCEPT !.pc[t] = "idle", !.got[t] = None]
    /\ UNCHANGED <<credsCache, ConcVarsRest>>

(* lines 58 and 73: return _assumed_creds_cache, the global as it is now *)
ConcReturn(t) ==
    /\ conc.pc[t] = "return"
    /\ conc' = [conc EXCEPT !.pc[t] = "idle", !.got[t] = credsCache]
    /\ UNCHANGED <<credVars, ConcVarsRest>>

ConcInit ==
    /\ nIn = None /\ nOut1 = None /\ nOut2 = None /\ nPc = 2
    /\ readonly = FALSE /\ roleArn = TRUE /\ targetVpc = FALSE
    /\ credsCache = None /\ credsExpiry = 0
    /\ now = Epoch0 /\ ticks = 0
    /\ NoCall
    /\ prevCreate = None
    /\ NoLookup /\ NoLines /\ NoPrep /\ NoRetry /\ NoSocket

ConcNext ==
    \/ \E t \in Threads : ConcEnter(t)
    \/ \E t \in Threads : ConcCheck(t)
    \/ \E t \in Threads : ConcAssume(t)
    \/ \E t \in Threads : ConcStoreCache(t)
    \/ \E t \in Threads : ConcStoreExpiry(t)
    \/ \E t \in Threads : ConcFailCache(t)
    \/ \E t \in Threads : ConcFailExpiry(t)
    \/ \E t \in Threads : ConcReturn(t)
    \/ Tick

SpecConc == ConcInit /\ [][ConcNext]_vars

(* the cache as one refresh leaves it *)
CacheConsistent ==
    IF IsNone(credsCache) THEN credsExpiry = 0
    ELSE credsExpiry = credsCache.issued + ASSUMED_CREDS_TTL_SEC

(* C22: under concurrent lookups at most one assume-role call is issued per
   TTL window (no second call within 300 s of one that succeeded), and a
   thread that reads the cache finds credentials and expiry written by the
   same refresh. *)
C22_RefreshGuarded ==
    /\ \A i, j \in DOMAIN conc.assumes :
          (i < j /\ conc.assumes[i].ok) =>
              conc.assumes[j].at >= conc.assumes[i].at + ASSUMED_CREDS_TTL_SEC
    /\ \A t \in Threads : conc.pc[t] \in {"check", "return"} => CacheConsistent

----------------------------------------------------------------------------
(* the call's template is YAML written with the short intrinsic tags, the
   YAML of the calls above that yaml.safe_load does not accept *)
TaggedTemplate == ~IsNone(tplIn) /\ tplIn.fmt = TaggedYaml[1] /\ tplIn.parses = TaggedYaml[2]

(* C23: for a YAML template with intrinsic tags the stages work on the
   parsed document: the gate lets it through to normalization only when no
   top-level resource has a denied type, the structural rules have been applied to the text handed on
   (a bucket's BucketName is forced before it is stripped, so the suffix
   parameter is declared), and the declared parameter keys found are those of
   its Parameters section. *)
C23_TaggedYamlIsParsed ==
    TaggedTemplate =>
        /\ pc = "normalize" => DeniedAtTop(tplIn) = {}
        /\ (pc \in {"net_hard", "net_default", "net_fallback", "net_apply", "names"}) =>
              DeclaredIn(tplIn) \subseteq tplKeys
        /\ (pc = "client" /\ BucketIds(tplIn) # {}) =>
              "BucketNameSuffix" \in DeclaredIn(body)

----------------------------------------------------------------------------
(* The YAML line pass of _normalize_cfn_template_for_provision, lines 314-334,
   on lines given by their indentation and their text after it. *)
MaxLines == 3
MaxIndent == 2
LineTexts == {"ScaleInCooldown: 60", "ScaleOutCooldown:", "TargetValue: 50", ""}
Line(indent, text) == [indent |-> indent, text |-> text]
Lines == {Line(n, x) : n \in 0..MaxIndent, x \in LineTexts \ {""}} \cup {Line(0, "")}
LineInputs == UNION {[1..n -> Lines] : n \in 0..MaxLines}

(* line 323: stripped.startswith('ScaleInCooldown:') or ...('ScaleOutCooldown:') *)
IsCooldownLine(ln) == ln.text \in {"ScaleInCooldown: 60", "ScaleOutCooldown:"}

(* lines 326-330: the line after a removed one goes with it when it is
   indented deeper and is not blank *)
SkipsNext(lines, i) ==
    i + 1 <= Len(lines) /\ lines[i + 1].indent > lines[i].indent /\ lines[i + 1].text # ""

(* lines 320-333: the while loop from line i on, out being the lines kept *)
RECURSIVE LinePassFrom(_, _, _)
LinePassFrom(lines, i, out) ==
    IF i > Len(lines) THEN out
    ELSE IF IsCooldownLine(lines[i])
         THEN LinePassFrom(lines, IF SkipsNext(lines, i) THEN i + 2 ELSE i + 1, out)
         ELSE LinePassFrom(lines, i + 1, Append(out, lines[i]))
LinePass(lines) == LinePassFrom(lines, 1, <<>>)

mainVars == <<normVars, confVars, credVars, now, ticks, callVars, prevCreate>>
LinesRest == <<mainVars, conc, prep, rt, ws>>

(* no tool call in progress, nothing configured *)
MainIdle ==
    /\ nIn = None /\ nOut1 = None /\ nOut2 = None /\ nPc = 2
    /\ readonly = FALSE /\ roleArn = FALSE /\ targetVpc = FALSE
    /\ credsCache = None /\ credsExpiry = 0
    /\ now = Epoch0 /\ ticks = 0
    /\ NoCall
    /\ prevCreate = None

LinesInit ==
    /\ MainIdle
    /\ NoLookup /\ NoPrep /\ NoRetry /\ NoSocket
    /\ \E lines \in LineInputs : tl = [pc |-> "start", in |-> lines, out |-> <<>>]

RunLinePass ==
    /\ tl.pc = "start"
    /\ tl' = [tl EXCEPT !.pc = "done", !.out = LinePass(tl.in)]
    /\ UNCHANGED LinesRest

LinesNext == RunLinePass

SpecLines == LinesInit /\ [][LinesNext]_vars

(* the lines left when each cooldown line goes with every line after it that
   is indented deeper than it, up to the first that is not *)
RECURSIVE BlockEnd(_, _, _)
BlockEnd(lines, indent, j) ==
    IF j <= Len(lines) /\ lines[j].indent > indent THEN BlockEnd(lines, indent, j + 1) ELSE j
RECURSIVE WithoutBlocksFrom(_, _, _)
WithoutBlocksFrom(lines, i, out) ==
    IF i > Len(lines) THEN out
    ELSE IF IsCooldownLine(lines[i])
         THEN WithoutBlocksFrom(lines, BlockEnd(lines, lines[i].indent, i + 1), out)
         ELSE WithoutBlocksFrom(lines, i + 1, Append(out, lines[i]))

(* C24: the line pass removes every line that starts with ScaleInCooldown: or
   ScaleOutCooldown: together with all the lines of its nested block, and
   keeps every other line, in order. *)
C24_WholeBlockRemoved ==
    tl.pc = "done" => tl.out = WithoutBlocksFrom(tl.in, 1, <<>>)

----------------------------------------------------------------------------
(* The properties of a resource that the provider rejects for its type. *)
RejectedIn(rdef) ==
    LET rtype == Get(rdef.d, "Type")
        props == GetOrEmpty(rdef.d, "Properties")
        tt == Get(props, "TargetTrackingConfiguration")
    IN  CASE rtype = Str("AWS::AutoScaling::ScalingPolicy") ->
                IF IsDict(tt) THEN Keys(tt.d) \cap {"ScaleInCooldown", "ScaleOutCooldown"} ELSE {}
          [] rtype = Str("AWS::ApiGateway::Stage") -> Keys(props) \cap {"LoggingLevel", "DataTraceEnabled"}
          [] rtype = Str("AWS::S3::BucketPolicy") -> Keys(props) \cap {"PolicyText"}
          [] rtype = Str("AWS::EC2::Instance") -> Keys(props) \cap {"TagSpecifications"}
          [] OTHER -> {}
RetainsRejected(tx) ==
    \E r \in Range(ResourcesOf(tx)) : IsDict(r.v) /\ RejectedIn(r.v) # {}

(* C25: after normalization of a template that parses, in JSON or in YAML, no
   resource retains a property the provider rejects for its type: no cooldown
   key in a ScalingPolicy's TargetTrackingConfiguration, no LoggingLevel or
   DataTraceEnabled on an ApiGateway Stage, no PolicyText on a BucketPolicy,
   no TagSpecifications on an EC2 Instance. *)
C25_NoRejectedPropertyLeft ==
    (nPc >= 1 /\ nIn.parses) => ~RetainsRejected(nOut1)

----------------------------------------------------------------------------
(* Template preparation, lines 1374-1378 of provision_cfn_stack, one step per
   transformation, over templates with CloudFront resources and references. *)
GetAtt(id, attr) == Dict(<<E("Fn::GetAtt", List(<<Str(id), Str(attr)>>))>>)
RefTo(id) == Dict(<<E("Ref", Str(id))>>)
ResDependsOn(id, type, props, dep) ==
    E(id, Dict(<<E("Type", Str(type)), E("Properties", Dict(props)), E("DependsOn", dep)>>))

PrepResources == {
    Res("Cdn", "AWS::CloudFront::Distribution",
        <<E("DistributionConfig", Dict(<<E("Enabled", Str("true"))>>))>>),
    Res("Oac", "AWS::CloudFront::OriginAccessControl", <<E("Name", Str("oac"))>>),
    Res("Queue", "AWS::SQS::Queue", <<E("QueueName", Str("q"))>>),
    Res("Bucket2", "AWS::S3::Bucket", <<E("BucketName", Str("my-bucket"))>>),
    Res("Record", "AWS::Route53::RecordSet",
        <<E("Name", Str("www")), E("AliasTarget", Dict(<<E("DNSName", GetAtt("Cdn", "DomainName"))>>))>>),
    Res("Topic", "AWS::SNS::Topic", <<E("DisplayName", RefTo("Queue"))>>),
    ResDependsOn("Logs", "AWS::Logs::LogGroup", <<E("RetentionInDays", Str("7"))>>, Str("Cdn")),
    ResDependsOn("Table", "AWS::DynamoDB::Table", <<E("TableName", Str("t"))>>,
                 List(<<Str("Cdn"), Str("Queue")>>))
}
PrepOutputs == {
    E("CdnId", Dict(<<E("Value", RefTo("Cdn"))>>)),
    E("CdnDomain", Dict(<<E("Value", GetAtt("Cdn", "DomainName"))>>)),
    E("CdnName", Dict(<<E("Value", Dict(<<E("Fn::GetAtt", Str("Cdn.DomainName"))>>))>>)),
    E("CdnUrl", Dict(<<E("Value", Dict(<<E("Fn::Join", List(<<Str("https://"), GetAtt("Cdn", "DomainName")>>))>>))>>)),
    E("QueueArn", Dict(<<E("Value", Dict(<<E("Fn::GetAtt", Str("Queue.Arn"))>>))>>))
}
MaxOutputs == 1
WithOutputs(doc, outs) == IF outs = <<>> THEN doc ELSE doc \o <<E("Outputs", Dict(outs))>>
PrepInputs ==
    {Text(f, p, FALSE, WithOutputs(MkDoc(<<>>, rs), os)) :
        f \in {"json", "yaml"}, p \in BOOLEAN,
        rs \in ResourceLists(PrepResources, MaxResources),
        os \in ResourceLists(PrepOutputs, MaxOutputs)}

PrepRest == <<mainVars, conc, tl, rt, ws>>

PrepInit ==
    /\ MainIdle
    /\ NoLookup /\ NoLines /\ NoRetry /\ NoSocket
    /\ \E tx \in PrepInputs : prep = [pc |-> "normalize", in |-> tx, cur |-> tx]

(* line 1374 *)
PrepNormalize ==
    /\ prep.pc = "normalize"
    /\ prep' = [prep EXCEPT !.pc = "cloudfront", !.cur = NormalizeCfnTemplateForProvision(prep.cur)]
    /\ UNCHANGED PrepRest
(* lines 1375-1376 *)
PrepStripCloudfront ==
    /\ prep.pc = "cloudfront"
    /\ prep' = [prep EXCEPT !.pc = "buckets", !.cur = StripCloudfrontFromTemplate(prep.cur)]
    /\ UNCHANGED PrepRest
(* lines 1377-1378 *)
PrepStripBucketNames ==
    /\ prep.pc = "buckets"
    /\ prep' = [prep EXCEPT !.pc = "prepared", !.cur = StripS3BucketNamesForAutoNaming(prep.cur)]
    /\ UNCHANGED PrepRest

PrepNext == PrepNormalize \/ PrepStripCloudfront \/ PrepStripBucketNames

SpecPrep == PrepInit /\ [][PrepNext]_vars

(* The names a value refers to through Ref and Fn::GetAtt. *)
RECURSIVE RefsOfVal(_)
RefsOfVal(v) ==
    IF IsDict(v)
    THEN UNION {IF e.k = "Ref" /\ IsStr(e.v) THEN {e.v.s}
                ELSE IF e.k = "Fn::GetAtt" /\ IsStr(e.v) THEN {AttBase(e.v.s)}
                ELSE IF e.k = "Fn::GetAtt" /\ IsList(e.v) /\ e.v.l # <<>> /\ IsStr(e.v.l[1])
                     THEN {e.v.l[1].s}
                ELSE RefsOfVal(e.v) : e \in Range(v.d)}
    ELSE IF IsList(v) THEN UNION {RefsOfVal(x) : x \in Range(v.l)}
    ELSE {}
(* The names a resource depends on. *)
DependsOnOf(rdef) ==
    LET dep == IF IsDict(rdef) THEN Get(rdef.d, "DependsOn") ELSE None
    IN  IF IsStr(dep) THEN {dep.s}
        ELSE IF IsList(dep) THEN {x.s : x \in {y \in Range(dep.l) : IsStr(y)}}
        ELSE {}
OutputsOf(tx) == GetOrEmpty(tx.doc, "Outputs")
Referenced(tx) ==
    UNION {RefsOfVal(r.v) \cup DependsOnOf(r.v) : r \in Range(ResourcesOf(tx))}
    \cup UNION {RefsOfVal(o.v) : o \in Range(OutputsOf(tx))}
Defined(tx) == Keys(ResourcesOf(tx)) \cup Keys(GetOrEmpty(tx.doc, "Parameters"))
Dangling(tx) == Referenced(tx) \ Defined(tx)

(* C26: if every Ref, GetAtt and DependsOn of the input template names a
   resource or a parameter of it, the same holds for the text after each
   transformation step and so for the template that is submitted. *)
C26_NoDanglingIntroduced ==
    Dangling(prep.in) = {} => Dangling(prep.cur) = {}

CloudFrontIds(tx) ==
    {r.k : r \in {e \in Range(ResourcesOf(tx)) : IsDict(e.v) /\ IsCloudFrontType(Get(e.v.d, "Type"))}}

(* C27: for an input that is a template in either format (JSON that parses, or
   YAML with or without intrinsic tags) the prepared template holds no
   AWS::CloudFront::* resource, no output whose value references a CloudFront
   resource of the input, and no DependsOn entry naming one. *)
C27_NoCloudFrontSubmitted ==
    (prep.pc = "prepared" /\ (prep.in.parses \/ prep.in.fmt = "yaml")) =>
        /\ CloudFrontIds(prep.cur) = {}
        /\ \A o \in Range(OutputsOf(prep.cur)) : RefsOfVal(o.v) \cap CloudFrontIds(prep.in) = {}
        /\ \A r \in Range(ResourcesOf(prep.cur)) : DependsOnOf(r.v) \cap CloudFrontIds(prep.in) = {}

----------------------------------------------------------------------------
(* converse_with_retry, lines 547-591: one action per outcome of a
   bedrock.converse call, and one for the sleep before the next attempt. *)
MaxRetries == 4
(* what str(e) names, for the errors bedrock.converse raises *)
ConverseErrors ==
    {"ThrottlingException", "TooManyRequestsException", "ValidationException", "AccessDeniedException"}

(* line 585: "ThrottlingException" in error_str or "TooManyRequestsException" in error_str *)
IsThrottling(e) == e \in {"ThrottlingException", "TooManyRequestsException"}

MayRetryMutAlways(attempt, maxRetries) == TRUE
(* line 586: attempt < max_retries - 1 *)
MayRetry(attempt, maxRetries) == attempt < maxRetries - 1

(* line 587, in tenths of a second: (2 ** attempt) + (0.1 * attempt) *)
WaitTenths(attempt) == 10 * (2 ^ attempt) + attempt

Response(n) == [response |-> n]
Pending == [pending |-> TRUE]

RetryRest == <<mainVars, conc, tl, prep, ws>>

RetryInit ==
    /\ MainIdle
    /\ NoLookup /\ NoLines /\ NoPrep /\ NoSocket
    /\ \E m \in 1..MaxRetries :
          rt = [pc |-> "loop", maxRetries |-> m, attempt |-> 0, tried |-> <<>>,
                slept |-> <<>>, result |-> Pending]

(* lines 569-582: the call returns and its response is returned *)
ConverseReturns ==
    /\ rt.pc = "loop" /\ rt.attempt < rt.maxRetries
    /\ rt' = [rt EXCEPT !.pc = "done", !.tried = Append(@, "ok"),
                        !.result = Response(Len(rt.tried) + 1)]
    /\ UNCHANGED RetryRest

(* lines 583-590: the call raises *)
ConverseRaises(e) ==
    /\ rt.pc = "loop" /\ rt.attempt < rt.maxRetries
    /\ IF IsThrottling(e) /\ MayRetry(rt.attempt, rt.maxRetries)
       THEN rt' = [rt EXCEPT !.pc = "sleep", !.tried = Append(@, e)]
       ELSE rt' = [rt EXCEPT !.pc = "done", !.tried = Append(@, e), !.result = Raised(e)]
    /\ UNCHANGED RetryRest

(* lines 587-590 and 568: time.sleep(wait_time); continue, to the next attempt
   or, were there none left, off the end of the function *)
Backoff ==
    /\ rt.pc = "sleep"
    /\ IF rt.attempt + 1 < rt.maxRetries
       THEN rt' = [rt EXCEPT !.pc = "loop", !.attempt = @ + 1,
                             !.slept = Append(@, WaitTenths(rt.attempt))]
       ELSE rt' = [rt EXCEPT !.pc = "done", !.attempt = @ + 1,
                             !.slept = Append(@, WaitTenths(rt.attempt)), !.result = None]
    /\ UNCHANGED RetryRest

RetryNext ==
    \/ ConverseReturns
    \/ \E e \in ConverseErrors : ConverseRaises(e)
    \/ Backoff

SpecRetry == RetryInit /\ [][RetryNext]_vars /\ WF_vars(RetryNext)

RetryDone == rt.pc = "done"
LastTried == rt.tried[Len(rt.tried)]
RetrySafe ==
    /\ Len(rt.tried) <= rt.maxRetries
    /\ \A i \in 1..(Len(rt.tried) - 1) : IsThrottling(rt.tried[i])
    /\ (~RetryDone /\ rt.tried # <<>>) => IsThrottling(LastTried)
    /\ RetryDone =>
          /\ rt.tried # <<>>
          /\ LastTried = "ok" => rt.result = Response(Len(rt.tried))
          /\ LastTried # "ok" => rt.result = Raised(LastTried)
          /\ IsThrottling(LastTried) => Len(rt.tried) = rt.maxRetries

(* C28: converse_with_retry terminates having called bedrock.converse at most
   max_retries times; every call but the last ended in a throttling error; a
   successful call's response is returned, a non-throttling error is raised at
   once, and a throttling error is raised only after max_retries calls. *)
C28_BoundedRetry == []RetrySafe /\ <>RetryDone

C28_Witness ==
    /\ RetryDone /\ rt.maxRetries = 3
    /\ rt.tried = <<"ThrottlingException", "TooManyRequestsException", "ThrottlingException">>
    /\ rt.result = Raised("ThrottlingException")
    /\ rt.slept = <<10, 21>>

----------------------------------------------------------------------------
(* The async-processing path of lambda_handler in the WebSocket handler
   (deploy/lambda_websocket/handler.py, lines 105-212). *)

(* What call_mcp_tool hands back: the parsed JSON of the first SSE data line,
   one of its own error objects, or an exception of urlopen. *)
Content(first) == Dict(<<E("result", Dict(<<E("content", List(<<first>>))>>))>>)
TextItem(text) == Dict(<<E("type", Str("text")), E("text", text)>>)
ToolOutcomes == {
    Raised("URLError"),
    Dict(<<E("error", Str("No data in SSE response"))>>),
    Dict(<<E("jsonrpc", Str("2.0")), E("error", Dict(<<E("code", Str("-32000"))>>))>>),
    Content(TextItem(Dict(<<E("success", Str("true"))>>))),
    Content(TextItem(Str("{json}"))),
    Content(TextItem(Str("not json"))),
    Content(TextItem(Str("  "))),
    Content(TextItem(List(<<Str("x")>>))),
    Content(Dict(<<E("success", Str("true"))>>)),
    Content(Dict(<<E("type", Str("image"))>>)),
    Content(Str("text")),
    Dict(<<E("result", Dict(<<E("content", List(<<>>))>>))>>),
    Dict(<<E("result", Dict(<<E("content", Dict(<<E("text", Str("{json}"))>>))>>))>>),
    Dict(<<E("result", Dict(<<E("content", Str("{json}"))>>))>>),
    Dict(<<E("result", None)>>),
    Dict(<<E("result", Str("done"))>>),
    Dict(<<E("jsonrpc", Str("2.0"))>>),
    List(<<Str("error")>>),
    List(<<Str("ok")>>),
    Str("an error page"),
    Str("ok"),
    None
}

(* 'error' in s, s.strip() and json.loads(s) on the strings above *)
MentionsError(str) == str \in {"an error page", "error"}
Strip(str) == IF str = "  " THEN "" ELSE str
JsonLoads(str) == IF str = "{json}" THEN Dict(<<E("parsed", Str("true"))>>) ELSE Raised("JSONDecodeError")

(* a message handed to send_message *)
Message(type, rid, about) == [type |-> type, requestId |-> rid, about |-> about]
ErrorMessage(rid, about) == Message("error", rid, about)
ResponseMessage(rid, data) == Message("response", rid, data)

(* bool(x) for the values above *)
Truthy(v) ==
    CASE IsNone(v) -> FALSE
      [] IsDict(v) -> v.d # <<>>
      [] IsList(v) -> v.l # <<>>
      [] IsStr(v) -> v.s # ""
      [] OTHER -> TRUE

(* lines 140-195: the message for a truthy content whose first item is first *)
ForFirstItem(first0, rid) ==
    LET first == IF IsDict(first0) THEN first0 ELSE Dict(<<>>)
        text == Get(first.d, "text")
    IN  IF IsDict(text) THEN ResponseMessage(rid, text)
        ELSE IF IsStr(text)
        THEN IF Strip(text.s) = "" THEN ErrorMessage(rid, Str("Empty tool result from AgentCore"))
             ELSE LET data == JsonLoads(Strip(text.s))
                  IN  IF "raised" \in DOMAIN data
                      THEN ErrorMessage(rid, Str("Invalid tool result JSON"))
                      ELSE ResponseMessage(rid, data)
        ELSE IF Keys(first.d) \cap {"success", "status", "result"} # {}
             THEN ResponseMessage(rid, first)
             ELSE ErrorMessage(rid, Str("Empty or unsupported tool result from AgentCore"))

(* lines 139-201: no 'error' in the result *)
ForResult(res, rid) ==
    IF ~IsDict(res) THEN Raised("AttributeError")
    ELSE LET inner == IF HasKey(res.d, "result") THEN Get(res.d, "result") ELSE Dict(<<>>)
         IN  IF ~IsDict(inner) THEN Raised("AttributeError")
             ELSE LET content == Get(inner.d, "content")
                  IN  IF ~Truthy(content)
                      THEN ErrorMessage(rid, Str("No result from MCP server"))
                      ELSE IF IsList(content) THEN ForFirstItem(content.l[1], rid)
                      ELSE IF IsStr(content) THEN ForFirstItem(Str("first character"), rid)
                      ELSE Raised("KeyError")

(* lines 131-137: 'error' in result, and the error message *)
HasError(res) ==
    CASE IsDict(res) -> HasKey(res.d, "error")
      [] IsList(res) -> Str("error") \in Range(res.l)
      [] IsStr(res) -> MentionsError(res.s)
      [] OTHER -> FALSE
ForError(res, rid) ==
    IF IsDict(res) THEN ErrorMessage(rid, Get(res.d, "error")) ELSE Raised("TypeError")

(* lines 125-201: what the try block sends after the progress message, or the
   exception that leaves it *)
TryBlock(outcome, rid) ==
    IF "raised" \in DOMAIN outcome THEN outcome
    ELSE IF IsNone(outcome) THEN Raised("TypeError")
    ELSE IF HasError(outcome) THEN ForError(outcome, rid)
    ELSE ForResult(outcome, rid)

TerminalMessagesMutNoReturn(outcome, rid) ==
    LET m == TryBlock(outcome, rid)
    IN  IF "raised" \in DOMAIN m THEN <<ErrorMessage(rid, Str(m.raised))>>
        ELSE IF IsDict(outcome) /\ HasError(outcome) THEN <<m, ErrorMessage(rid, Get(outcome.d, "error"))>>
        ELSE <<m>>
(* lines 131-210: the messages sent after the call: the try block's, or the
   except clause's when the try block raised *)
TerminalMessages(outcome, rid) ==
    LET m == TryBlock(outcome, rid)
    IN  IF "raised" \in DOMAIN m THEN <<ErrorMessage(rid, Str(m.raised))>> ELSE <<m>>

(* send_message, lines 25-35: the message is posted to the connection; a
   failure of the post is swallowed *)
Sent(msg, posted) == [msg |-> msg, posted |-> posted]
RECURSIVE SendAll(_, _, _)
SendAll(sent, msgs, posted) ==
    IF msgs = <<>> THEN sent
    ELSE SendAll(Append(sent, Sent(msgs[1], posted)), Tail(msgs), posted)

RequestIds == {Str("req-1"), Str("req-2"), None}

SocketRest == <<mainVars, conc, tl, prep, rt>>

SocketInit ==
    /\ MainIdle
    /\ NoLookup /\ NoLines /\ NoPrep /\ NoRetry
    /\ \E rid \in RequestIds :
          ws = [pc |-> "progress", requestId |-> rid, outcome |-> Pending, sent |-> <<>>,
                ret |-> Pending]

(* lines 117-122 *)
SendProgress(posted) ==
    /\ ws.pc = "progress"
    /\ ws' = [ws EXCEPT !.pc = "call",
                        !.sent = Append(@, Sent(Message("progress", ws.requestId, Str("50")), posted))]
    /\ UNCHANGED SocketRest

(* line 125 *)
CallMcpTool(outcome) ==
    /\ ws.pc = "call"
    /\ ws' = [ws EXCEPT !.pc = "handle", !.outcome = outcome]
    /\ UNCHANGED SocketRest

(* lines 131-212 *)
HandleOutcome(posted) ==
    /\ ws.pc = "handle"
    /\ ws' = [ws EXCEPT !.pc = "returned",
                        !.sent = SendAll(@, TerminalMessages(ws.outcome, ws.requestId), posted),
                        !.ret = [statusCode |-> 200]]
    /\ UNCHANGED SocketRest

SocketNext ==
    \/ \E posted \in BOOLEAN : SendProgress(posted)
    \/ \E outcome \in ToolOutcomes : CallMcpTool(outcome)
    \/ \E posted \in BOOLEAN : HandleOutcome(posted)

SpecSocket == SocketInit /\ [][SocketNext]_vars

IsTerminal(s) == s.msg.type \in {"response", "error"}
TerminalSends == {i \in DOMAIN ws.sent : IsTerminal(ws.sent[i])}
ProgressSends == {i \in DOMAIN ws.sent : ws.sent[i].msg.type = "progress" /\ ws.sent[i].msg.about = Str("50")}

(* C29: in the async-processing path, whatever call_mcp_tool returned or
   raised, the handler returns statusCode 200 having handed send_message
   exactly one terminal message (type response or error) with the requestId
   of the request, after the progress 50 message; no terminal message is sent
   before the handler has the outcome. *)
C29_OneTerminalMessage ==
    /\ ws.pc = "returned" =>
          /\ ws.ret = [statusCode |-> 200]
          /\ Cardinality(TerminalSends) = 1
          /\ \A i \in TerminalSends :
                /\ ws.sent[i].msg.requestId = ws.requestId
                /\ \E j \in ProgressSends : j < i
    /\ ws.pc # "returned" => (TerminalSends = {} /\ ws.ret = Pending)

C29_Witness ==
    /\ ws.pc = "returned"
    /\ ws.outcome = Dict(<<E("result", None)>>)
    /\ ws.requestId = Str("req-1")
    /\ Len(ws.sent) = 2
    /\ ws.sent[2] = Sent(ErrorMessage(Str("req-1"), Str("AttributeError")), TRUE)

----------------------------------------------------------------------------
(* The stack name of one provision_cfn_stack invocation. *)
GeneratedPrefix == "AgenticArchitect-"
NameLength(sn) ==
    IF "generated" \in DOMAIN sn THEN Len(GeneratedPrefix) + 8 ELSE Len(sn.given)
Provisioning == pc \notin {"idle", "delete_done"} /\ ~IsNone(stackName)

(* C30: within one invocation the effective stack name is the caller's
   trimmed name when that has at most 50 characters and otherwise the
   generated name with the last 8 digits of the clock; it is never longer
   than 50 characters, and it is the name sent to describe_stacks, the
   StackName of the create/update request and the returned stack_name. *)
C30_OneEffectiveName ==
    Provisioning =>
        /\ IF Len(StripName(nameIn)) <= 50
           THEN stackName = [given |-> StripName(nameIn)]
           ELSE \E t \in Epoch0..now : stackName = [generated |-> Digits(Last8(t))]
        /\ NameLength(stackName) <= 50
        /\ describedName \in {None, stackName}
        /\ (\E i \in DOMAIN calls : calls[i].api = "cfn:DescribeStacks") => describedName = stackName
        /\ ~IsNone(request) => request.StackName = stackName
        /\ Succeeded => result.stack_name = stackName

C30_Witness ==
    /\ pc = "done" /\ Succeeded
    /\ nameIn = PaddedName50
    /\ describedName = [given |-> Name50]
    /\ request.StackName = [given |-> Name50]
    /\ result.stack_name = [given |-> Name50]

====
